---- MODULE Spec2Model ----
(***************************************************************************)
(* A model of the flowy canvas interaction engine: the Canvas component    *)
(* (viewport, gestures, connection state machine), the Node component's    *)
(* drag and handle events, the workflow utilities, and the demo host App   *)
(* (node picker, pending connection, cancel flag).                         *)
(*                                                                         *)
(* React state is modelled as variables; an event is one action that runs  *)
(* every handler the DOM dispatches it to, followed by the effects whose   *)
(* dependencies the handlers changed (React 18 flushes the effects of a    *)
(* discrete event before the next event is handled). A mousemove is not a  *)
(* discrete event: the guides effect that follows a drag update is a step  *)
(* of its own, GuidesEffectRuns, taken before the next handler. Handlers   *)
(* read the state of the latest render, except the callbacks a memoised    *)
(* Node keeps from the render that last passed its comparator.             *)
(*                                                                         *)
(* The specifications share the actions: Spec edits the document (drafts,  *)
(* the picker, deletion), SpecGesture moves the viewport (mouse pan, touch *)
(* pan and pinch) around drafts, SpecKeys selects nodes and presses keys,  *)
(* SpecWires draws drafts over a workflow whose wires name their handles,  *)
(* SpecZoom zooms and pans (wheel, zoom controls, pinch), SpecDrag drags   *)
(* nodes (snapping, alignment guides), SpecRequest releases drafts and     *)
(* clicks the zoom controls, SpecHandles draws drafts from nodes of one to *)
(* three handles, SpecRender is handed workflows whose wires may name      *)
(* absent nodes or handles, SpecJson writes the workflow as text and reads *)
(* texts back, SpecReset resets the view over workflows of up to three     *)
(* nodes, SpecPath draws drafts beside a persisted wire whose target node  *)
(* lies right of, below or left of its source, and SpecSnap drags a node   *)
(* beside two nodes that may lie within the snap threshold of each other.  *)
(***************************************************************************)
EXTENDS Integers, Sequences, FiniteSets, TLC

(***************************************************************************)
(* Numbers.  A JavaScript number is modelled as an extended rational       *)
(* <<n, d>> in lowest terms with d >= 0: d > 0 is the rational n/d,        *)
(* <<1,0>> is Infinity, <<-1,0>> is -Infinity and <<0,0>> is NaN.          *)
(* Rounding of doubles is not modelled.                                    *)
(***************************************************************************)
Abs(i) == IF i < 0 THEN -i ELSE i

Sign(i) == IF i < 0 THEN -1 ELSE IF i = 0 THEN 0 ELSE 1

RECURSIVE GCD(_, _)
GCD(a, b) == IF b = 0 THEN a ELSE GCD(b, a % b)

Norm(n, d) ==
    IF d = 0 THEN <<Sign(n), 0>>
    ELSE LET g == GCD(Abs(n), Abs(d))
         IN  <<Sign(d) * (n \div g), Abs(d) \div g>>

Num(i) == <<i, 1>>

NaN == <<0, 0>>

IsNaN(a) == a = NaN

IsFinite(a) == a[2] > 0

\* a + b
Plus(a, b) ==
    IF IsNaN(a) \/ IsNaN(b) THEN NaN
    ELSE IF ~IsFinite(a) /\ ~IsFinite(b) THEN (IF a = b THEN a ELSE NaN)
    ELSE IF ~IsFinite(a) THEN a
    ELSE IF ~IsFinite(b) THEN b
    ELSE LET g == GCD(a[2], b[2])
         IN  Norm(a[1] * (b[2] \div g) + b[1] * (a[2] \div g), (a[2] \div g) * b[2])

Neg(a) == <<-a[1], a[2]>>

\* a - b
Minus(a, b) == Plus(a, Neg(b))

\* a * b
Times(a, b) ==
    IF IsFinite(a) /\ IsFinite(b) /\ a[1] # 0 /\ b[1] # 0
    THEN LET g == GCD(Abs(a[1]), b[2])
             h == GCD(Abs(b[1]), a[2])
         IN  Norm((a[1] \div g) * (b[1] \div h), (a[2] \div h) * (b[2] \div g))
    ELSE Norm(a[1] * b[1], a[2] * b[2])

\* a / b  (x/0 is +-Infinity, 0/0 is NaN; the zero of the model is +0)
Over(a, b) ==
    Times(a, IF b = <<0, 1>> THEN <<1, 0>> ELSE <<Sign(b[1]) * b[2], Abs(b[1])>>)

\* a < b  (false when either is NaN)
Less(a, b) ==
    IF IsNaN(a) \/ IsNaN(b) THEN FALSE
    ELSE IF ~IsFinite(a) /\ ~IsFinite(b) THEN a[1] < b[1]
    ELSE IF ~IsFinite(a) \/ ~IsFinite(b) THEN a[1] * b[2] < b[1] * a[2]
    ELSE LET g == GCD(a[2], b[2])
         IN  a[1] * (b[2] \div g) < b[1] * (a[2] \div g)

MathMin(a, b) ==
    IF IsNaN(a) \/ IsNaN(b) THEN NaN ELSE IF Less(b, a) THEN b ELSE a

MathMax(a, b) ==
    IF IsNaN(a) \/ IsNaN(b) THEN NaN ELSE IF Less(a, b) THEN b ELSE a

\* Math.abs
MathAbs(a) == <<Abs(a[1]), a[2]>>

\* a !== b  (true when either is NaN)
StrictNotEqual(a, b) == IsNaN(a) \/ IsNaN(b) \/ a # b

\* a % 1 !== 0: the number has a fractional part
HasFraction(a) == IsFinite(a) /\ a[2] # 1

Pos(x, y) == [x |-> x, y |-> y]

(***************************************************************************)
(* Bounds of the model.                                                    *)
(***************************************************************************)
\* nodes the host creates on top of the three initial ones
MaxNewNodes == 1

\* wires created on top of the two initial ones
MaxNewWires == 1

\* nodes deleted per run
MaxDeletedNodes == 1

\* viewport gestures started per run (mouse pans and touches put down)
MaxViewOps == 2

\* Math.sqrt is computed for the squares of 0..MaxRoot
MaxRoot == 400

\* cancel-flag reset timers pending at once
MaxTimers == 1

\* handles on a side of the nodes the handle specification starts from
MaxHandles == 3

(***************************************************************************)
(* Program constants.                                                      *)
(***************************************************************************)
NODE_WIDTH == 160

NODE_HEIGHT == 80

\* snapping threshold, in pixels
SNAP_THRESHOLD == 8

\* the width and height props of the Canvas
CanvasWidth == 800

CanvasHeight == 600

\* null in a string- or number-valued field, and in an object-valued one
null == "null"

nullObj == <<>>

undefined == "undefined"

HandleTypes == {"input", "output"}

\* the canvas element's getBoundingClientRect(): the canvas sits at the
\* client origin
RectLeft == 0

RectTop == 0

\* client coordinates the mouse events of the model carry
Points == {Pos(Num(300), Num(200)), Pos(Num(500), Num(260))}

\* client coordinates the mouse events of the document specification carry
DocPoints == {Pos(Num(300), Num(200))}

\* the nodes whose handles the drafts of the gesture specification start on
GestureNodes == {"node-2"}

GestureTypes == {"output"}

\* where on a node the pointer grabs it
GrabOffset == Pos(Num(80), Num(40))

\* the positions the drags of the model propose: 2 and 7 off another node's
\* coordinate, exactly 8 off, and far from every node
ProposedPositions ==
    {Pos(Num(102), Num(300)), Pos(Num(108), Num(108)), Pos(Num(343), Num(107))}

\* the client points of the mousemoves of a node drag
DragPoints ==
    {Pos(Plus(q.x, GrabOffset.x), Plus(q.y, GrabOffset.y)) : q \in ProposedPositions}

\* client points on the icons of the zoom-in and zoom-out controls, at the
\* bottom right of an 800 x 600 canvas
ZoomInIconPoint == Pos(Num(763), Num(475))

ZoomOutIconPoint == Pos(Num(763), Num(519))

\* the deltaY values the wheel events of the model carry: a mouse wheel
\* notch, a pinch or modifier scroll, a trackpad scroll
WheelDeltas == {Num(100), Num(-100), Num(50), Num(-50), <<25, 2>>, <<-25, 2>>}

\* the scales the zoom specification starts from, each reached by wheel zooms
\* at the canvas origin
StartScales == {<<1, 10>>, <<17, 20>>, Num(1), <<21, 20>>, <<29, 10>>, Num(3)}

\* client coordinates the touches of the model carry
TouchPoints == {Pos(Num(200), Num(300)), Pos(Num(400), Num(300)),
                Pos(Num(600), Num(300))}

(***************************************************************************)
(* Workflow utilities (utils.ts).  A node keeps the number of its input    *)
(* and output handles; data.inputs/outputs absent and empty both count 0.  *)
(***************************************************************************)
createNode(id, type, position, data) ==
    [id |-> id, type |-> type, position |-> position, data |-> data]

createWire(id, sourceNodeId, targetNodeId, sourceOutput, targetInput) ==
    [id |-> id, sourceNodeId |-> sourceNodeId, targetNodeId |-> targetNodeId,
     sourceOutput |-> sourceOutput, targetInput |-> targetInput]

createWorkflow(nodes, wires) == [nodes |-> nodes, wires |-> wires]

addNodeToWorkflow(wf, node) == [wf EXCEPT !.nodes = Append(@, node)]

Range(s) == {s[k] : k \in 1..Len(s)}

NodeIdsOf(wf) == {n.id : n \in Range(wf.nodes)}

\* nodes.find(n => n.id === id)
FindNode(wf, id) ==
    LET ks == {k \in 1..Len(wf.nodes) : wf.nodes[k].id = id}
    IN  wf.nodes[CHOOSE k \in ks : \A j \in ks : k <= j]

\* Number.prototype.toString for a handle index
toString(i) == <<"0", "1", "2", "3">>[i + 1]

\* parseInt(s || '0')
ParseIndex(s) ==
    IF s = undefined THEN 0
    ELSE CHOOSE i \in 0..3 : toString(i) = s

\* node.data.{inputs,outputs}?.length || 1
TotalHandles(node, isOutput) ==
    LET len == IF isOutput THEN node.data.outputs ELSE node.data.inputs
    IN  IF len = 0 THEN 1 ELSE len

\* topOffsetPercent with the handles spread from the top edge
TopOffsetPercentFlush(total, handleIndex) ==
    Times(Over(Num(handleIndex), Num(total)), Num(100))

\* topOffsetPercent, as a fraction of 100
TopOffsetPercent(total, handleIndex) ==
    IF total = 1 THEN Num(50)
    ELSE Times(Over(Num(handleIndex + 1), Num(total + 1)), Num(100))

getHandlePosition(node, isOutput, handleIndex) ==
    LET total == TotalHandles(node, isOutput)
        pct   == TopOffsetPercent(total, handleIndex)
        dy    == Over(Times(Num(NODE_HEIGHT), pct), Num(100))
    IN  IF isOutput
        THEN Pos(Plus(node.position.x, Num(NODE_WIDTH)), Plus(node.position.y, dy))
        ELSE Pos(node.position.x, Plus(node.position.y, dy))

\* Node: the `top` of the element of handle index among total, in percent
NodeTopOffset(total, index) ==
    IF total = 1 THEN Num(50)
    ELSE Times(Over(Num(index + 1), Num(total + 1)), Num(100))

(***************************************************************************)
(* State.                                                                  *)
(***************************************************************************)
VARIABLES
    workflow,               \* App: the document {nodes, wires}
    created,                \* nodes the host has created (generateId draws a fresh id)
    wired,                  \* wires created so far (each wire id is fresh)
    isSidebarOpen,          \* App: the node picker is shown
    pendingConnection,      \* App: the node-creation request awaiting a choice
    shouldCancelConnection, \* App: the cancel flag handed to the Canvas
    cancelTimers,           \* App: pending setTimeout(..., 100) resets of the flag
    selectedNodeIds,        \* Canvas
    nodeProps,              \* Node: the connection state its onEndConnection prop closes over
    connectionState,        \* Canvas
    viewportTransform,      \* Canvas
    isPanning,              \* Canvas
    panStart,               \* Canvas
    touchState,             \* Canvas
    touches,                \* the touch points on the surface (event.touches)
    isMac,                  \* Canvas: navigator.platform names a Mac
    draggingNodeId,         \* Node: the id of the Node whose isDragging is true, or null
    dragStartRef,           \* Node: dragStartRef.current of that Node
    hasMouseMoved,          \* Node: hasMouseMoved of that Node
    currentDragNode,        \* Canvas: {node, isDragging} or null
    alignmentGuides,        \* Canvas
    viewOps,                \* viewport gestures started so far (bounds the model)
    clipboard,              \* the text on the clipboard, or null
    deserialized            \* what deserializeWorkflow last returned, or null

docVars == <<workflow, created, wired>>

hostVars == <<isSidebarOpen, pendingConnection, shouldCancelConnection,
              cancelTimers>>

viewVars == <<viewportTransform, isPanning, panStart, touchState, touches,
              isMac, viewOps>>

dragVars == <<draggingNodeId, dragStartRef, hasMouseMoved, currentDragNode,
              alignmentGuides>>

ioVars == <<clipboard, deserialized>>

vars == <<workflow, created, wired, isSidebarOpen, pendingConnection,
          shouldCancelConnection, cancelTimers, selectedNodeIds, nodeProps,
          connectionState, viewportTransform, isPanning, panStart, touchState,
          touches, isMac, draggingNodeId, dragStartRef, hasMouseMoved,
          currentDragNode, alignmentGuides, viewOps, clipboard, deserialized>>

\* ids generateId() and the wire-id template draw; each is fresh
NewNodeIds == <<"node-a", "node-b", "node-c">>

NewWireIds == <<"wire-a", "wire-b", "wire-c">>

\* App's nodeConfigs: the handle lists of each node type, as their lengths
nodeConfigs ==
    [trigger     |-> [inputs |-> 0, outputs |-> 1],
     action      |-> [inputs |-> 1, outputs |-> 1],
     conditional |-> [inputs |-> 1, outputs |-> 2],
     memory      |-> [inputs |-> 2, outputs |-> 1]]

\* the node types the picker of the model offers: one without inputs, one
\* with two outputs, one with two inputs
NodeTypes == {"trigger", "conditional", "memory"}

\* positions Math.random() gives a node created without a pending connection
RandomPositions == {Pos(Num(100), Num(300))}

IdleConnection ==
    [isConnecting |-> FALSE, sourceNodeId |-> null, sourceType |-> null,
     sourceIndex |-> null, currentPosition |-> nullObj, hasMouseMoved |-> FALSE]

InitialWorkflow ==
    createWorkflow(
        <<createNode("node-1", "trigger", Pos(Num(100), Num(100)),
                     [inputs |-> 0, outputs |-> 1]),
          createNode("node-2", "action", Pos(Num(350), Num(100)),
                     [inputs |-> 1, outputs |-> 1]),
          createNode("node-3", "action", Pos(Num(600), Num(100)),
                     [inputs |-> 1, outputs |-> 0])>>,
        <<createWire("wire-1", "node-1", "node-2", undefined, undefined),
          createWire("wire-2", "node-2", "node-3", undefined, undefined)>>)

Init ==
    /\ workflow = InitialWorkflow
    /\ created = 0
    /\ wired = 0
    /\ isSidebarOpen = FALSE
    /\ pendingConnection = nullObj
    /\ shouldCancelConnection = FALSE
    /\ cancelTimers = 0
    /\ selectedNodeIds = {}
    /\ nodeProps = [n \in NodeIdsOf(InitialWorkflow) |->
                        [isConnecting |-> FALSE, sourceNodeId |-> null,
                         sourceType |-> null, sourceIndex |-> null]]
    /\ connectionState = IdleConnection
    /\ viewportTransform = [x |-> Num(0), y |-> Num(0), scale |-> Num(1)]
    /\ isPanning = FALSE
    /\ panStart = Pos(Num(0), Num(0))
    /\ touchState = nullObj
    /\ touches = <<>>
    /\ isMac = FALSE
    /\ draggingNodeId = null
    /\ dragStartRef = Pos(Num(0), Num(0))
    /\ hasMouseMoved = FALSE
    /\ currentDragNode = nullObj
    /\ alignmentGuides = <<>>
    /\ viewOps = 0
    /\ clipboard = nullObj
    /\ deserialized = nullObj

(***************************************************************************)
(* Canvas: coordinate mapping.                                             *)
(***************************************************************************)
\* (clientX - rect.left - viewportTransform.x) / viewportTransform.scale
ScreenToCanvas(p, vt) ==
    Pos(Over(Minus(Minus(p.x, Num(RectLeft)), vt.x), vt.scale),
        Over(Minus(Minus(p.y, Num(RectTop)), vt.y), vt.scale))

\* the centre of a handle element's client rectangle: the handle is drawn at
\* its anchor inside <g transform="translate(x, y) scale(s)">
HandleClientCentre(node, type, index, vt) ==
    LET a == getHandlePosition(node, type = "output", index)
    IN  Pos(Plus(Plus(Times(a.x, vt.scale), vt.x), Num(RectLeft)),
            Plus(Plus(Times(a.y, vt.scale), vt.y), Num(RectTop)))

(***************************************************************************)
(* Canvas: the connection state machine.                                   *)
(***************************************************************************)
handleStartConnection(nodeId, type, index, position) ==
    [isConnecting |-> TRUE, sourceNodeId |-> nodeId, sourceType |-> type,
     sourceIndex |-> index, currentPosition |-> position,
     hasMouseMoved |-> FALSE]

\* cancelConnectionEffect doing nothing
cancelConnectionEffectOff(cancelConnection, cs) == cs

\* the cancelConnection effect, run when the flag or isConnecting changed
cancelConnectionEffect(cancelConnection, cs) ==
    IF cancelConnection /\ cs.isConnecting THEN IdleConnection ELSE cs

\* NewWire without the normalisation: the grabbed handle is always the source
NewWireAsGrabbed(wireId, cs, nodeId, index) ==
    [id           |-> wireId,
     sourceNodeId |-> cs.sourceNodeId,
     targetNodeId |-> nodeId,
     sourceOutput |-> toString(cs.sourceIndex),
     targetInput  |-> toString(index)]

\* the wire handleEndConnection builds for the draft cs ending on (nodeId, index)
NewWire(wireId, cs, nodeId, index) ==
    LET isSourceOutput == cs.sourceType = "output"
    IN  [id           |-> wireId,
         sourceNodeId |-> IF isSourceOutput THEN cs.sourceNodeId ELSE nodeId,
         targetNodeId |-> IF isSourceOutput THEN nodeId ELSE cs.sourceNodeId,
         sourceOutput |-> IF isSourceOutput THEN toString(cs.sourceIndex)
                                            ELSE toString(index),
         targetInput  |-> IF isSourceOutput THEN toString(index)
                                            ELSE toString(cs.sourceIndex)]

wireExists(wires, newWire) ==
    \E k \in 1..Len(wires) :
        /\ wires[k].sourceNodeId = newWire.sourceNodeId
        /\ wires[k].targetNodeId = newWire.targetNodeId
        /\ wires[k].sourceOutput = newWire.sourceOutput
        /\ wires[k].targetInput = newWire.targetInput

\* AddWireIfNew with the existing wires dropped from the update
AddWireReplacingAll(wf, newWire) ==
    IF ~wireExists(wf.wires, newWire)
    THEN [wf EXCEPT !.wires = <<newWire>>]
    ELSE wf

\* the workflow update of handleEndConnection
AddWireIfNew(wf, newWire) ==
    IF ~wireExists(wf.wires, newWire)
    THEN [wf EXCEPT !.wires = Append(@, newWire)]
    ELSE wf

\* the draft is refused: same node, or same handle type
RefusesTarget(cs, nodeId, type) ==
    cs.sourceNodeId = nodeId \/ cs.sourceType = type

\* the handleEndConnection of the render that made the props of node nodeId:
\* cs is the connectionState it closes over
handleEndConnection(cs, nodeId, type, index) ==
    IF ~cs.isConnecting \/ cs.sourceNodeId = null
    THEN UNCHANGED <<workflow, connectionState>>
    ELSE IF RefusesTarget(cs, nodeId, type)
    THEN /\ connectionState' = IdleConnection
         /\ UNCHANGED workflow
    ELSE /\ workflow' = AddWireIfNew(workflow,
                            NewWire(NewWireIds[wired + 1], cs, nodeId, index))
         /\ connectionState' = IdleConnection

\* handleMouseMove without its isConnecting guard
handleMouseMoveUnguarded(cs, p, vt, sidebarOpen) ==
    IF ~sidebarOpen
    THEN [cs EXCEPT !.currentPosition = ScreenToCanvas(p, vt),
                    !.hasMouseMoved = TRUE]
    ELSE cs

\* the document mousemove listener registered while isConnecting
handleMouseMove(cs, p, vt, sidebarOpen) ==
    IF cs.isConnecting /\ ~sidebarOpen
    THEN [cs EXCEPT !.currentPosition = ScreenToCanvas(p, vt),
                    !.hasMouseMoved = TRUE]
    ELSE cs

\* App.handleNodeCreationRequest
handleNodeCreationRequest(connectionInfo) ==
    /\ pendingConnection' = connectionInfo
    /\ isSidebarOpen' = TRUE

\* handleCanvasClick with the draft reset when the request is raised
handleCanvasClickEndsDraft(panning, p) ==
    IF panning
    THEN UNCHANGED <<selectedNodeIds, connectionState, pendingConnection,
                     isSidebarOpen>>
    ELSE /\ selectedNodeIds' = {}
         /\ IF connectionState.isConnecting /\ connectionState.hasMouseMoved
            THEN LET c == ScreenToCanvas(p, viewportTransform)
                 IN  /\ connectionState' = IdleConnection
                     /\ handleNodeCreationRequest(
                            [sourceNodeId |-> connectionState.sourceNodeId,
                             sourceType   |-> connectionState.sourceType,
                             sourceIndex  |-> connectionState.sourceIndex,
                             position     |-> c])
            ELSE UNCHANGED <<connectionState, pendingConnection, isSidebarOpen>>

\* a click whose target is the canvas or the svg background
handleCanvasClick(panning, p) ==
    IF panning
    THEN UNCHANGED <<selectedNodeIds, connectionState, pendingConnection,
                     isSidebarOpen>>
    ELSE /\ selectedNodeIds' = {}
         /\ IF connectionState.isConnecting /\ connectionState.hasMouseMoved
            THEN LET c == ScreenToCanvas(p, viewportTransform)
                 IN  /\ connectionState' =
                            [connectionState EXCEPT !.currentPosition = c]
                     /\ handleNodeCreationRequest(
                            [sourceNodeId |-> connectionState.sourceNodeId,
                             sourceType   |-> connectionState.sourceType,
                             sourceIndex  |-> connectionState.sourceIndex,
                             position     |-> c])
            ELSE UNCHANGED <<connectionState, pendingConnection, isSidebarOpen>>

\* removeNodeFromWorkflow keeping the wires into the node
removeNodeKeepingTargets(wf, nodeId) ==
    [nodes |-> SelectSeq(wf.nodes, LAMBDA n : n.id # nodeId),
     wires |-> SelectSeq(wf.wires, LAMBDA w : w.sourceNodeId # nodeId)]

\* removeNodeFromWorkflow / the update of handleNodeDelete
removeNodeFromWorkflow(wf, nodeId) ==
    [nodes |-> SelectSeq(wf.nodes, LAMBDA n : n.id # nodeId),
     wires |-> SelectSeq(wf.wires, LAMBDA w : w.sourceNodeId # nodeId
                                              /\ w.targetNodeId # nodeId)]

\* selectedNodeIds.forEach(nodeId => handleNodeDelete(nodeId))
RECURSIVE RemoveNodes(_, _)
RemoveNodes(wf, ids) ==
    IF ids = {} THEN wf
    ELSE LET id == CHOOSE i \in ids : TRUE
         IN  RemoveNodes(removeNodeFromWorkflow(wf, id), ids \ {id})

removeWireFromWorkflow(wf, wireId) ==
    [wf EXCEPT !.wires = SelectSeq(@, LAMBDA w : w.id # wireId)]

(***************************************************************************)
(* Node: React.memo.  A Node is rendered again only when the comparator    *)
(* sees its node's id, position or data, isSelected or isConnecting        *)
(* change, or when its own state changes in the same batch; otherwise it   *)
(* keeps the props, and so the onEndConnection callback, of its last       *)
(* render.                                                                 *)
(***************************************************************************)
\* what handleEndConnection reads of the connectionState it closes over
ClosedOver(cs) ==
    [isConnecting |-> cs.isConnecting, sourceNodeId |-> cs.sourceNodeId,
     sourceType |-> cs.sourceType, sourceIndex |-> cs.sourceIndex]

\* the memo comparator of node n returns false for the render after this step
NodeRerenders(n) ==
    \/ n \notin DOMAIN nodeProps
    \/ nodeProps[n].isConnecting # connectionState'.isConnecting
    \/ (n \in selectedNodeIds) # (n \in selectedNodeIds')
    \/ FindNode(workflow, n).position # FindNode(workflow', n).position

\* the props the Nodes hold after the render that follows the step; the Nodes
\* of own also changed their own state in the step
RenderNodes(own) ==
    nodeProps' = [n \in NodeIdsOf(workflow') |->
                    IF n \in own \/ NodeRerenders(n)
                    THEN ClosedOver(connectionState')
                    ELSE nodeProps[n]]

(***************************************************************************)
(* Canvas: snapping and alignment guides.                                  *)
(***************************************************************************)
WithinThresholdInclusive(a, b) == ~Less(Num(SNAP_THRESHOLD), MathAbs(Minus(a, b)))

\* Math.abs(a - b) < SNAP_THRESHOLD
WithinThreshold(a, b) == Less(MathAbs(Minus(a, b)), Num(SNAP_THRESHOLD))

\* a guide between the dragged node and another, across their extents on the
\* other axis padded by 5
Guide(type, position, dragged, other, lo1, lo2, hi1, hi2) ==
    [type     |-> type,
     position |-> position,
     nodeIds  |-> <<dragged.id, other.id>>,
     start    |-> Minus(MathMin(lo1, lo2), Num(5)),
     end      |-> Plus(MathMax(hi1, hi2), Num(5))]

\* guides.push(g) under a condition
PushIf(cond, g) == IF cond THEN <<g>> ELSE <<>>

\* one pass of calculateSnapping's loop: acc is {x, y, guides}
SnapAgainst(acc, draggedNode, otherNode) ==
    LET halfW          == Over(Num(NODE_WIDTH), Num(2))
        halfH          == Over(Num(NODE_HEIGHT), Num(2))
        draggedCenterX == Plus(draggedNode.position.x, halfW)
        draggedCenterY == Plus(draggedNode.position.y, halfH)
        draggedLeft    == draggedNode.position.x
        draggedRight   == Plus(draggedNode.position.x, Num(NODE_WIDTH))
        draggedTop     == draggedNode.position.y
        draggedBottom  == Plus(draggedNode.position.y, Num(NODE_HEIGHT))
        otherCenterX   == Plus(otherNode.position.x, halfW)
        otherCenterY   == Plus(otherNode.position.y, halfH)
        otherLeft      == otherNode.position.x
        otherRight     == Plus(otherNode.position.x, Num(NODE_WIDTH))
        otherTop       == otherNode.position.y
        otherBottom    == Plus(otherNode.position.y, Num(NODE_HEIGHT))
        centerX        == WithinThreshold(draggedCenterX, otherCenterX)
        left           == WithinThreshold(draggedLeft, otherLeft)
        right          == WithinThreshold(draggedRight, otherRight)
        centerY        == WithinThreshold(draggedCenterY, otherCenterY)
        top            == WithinThreshold(draggedTop, otherTop)
        bottom         == WithinThreshold(draggedBottom, otherBottom)
        Vertical(pos)   == Guide("vertical", pos, draggedNode, otherNode,
                                 draggedTop, otherTop, draggedBottom, otherBottom)
        Horizontal(pos) == Guide("horizontal", pos, draggedNode, otherNode,
                                 draggedLeft, otherLeft, draggedRight, otherRight)
    IN  IF otherNode.id = draggedNode.id THEN acc
        ELSE [x |-> IF centerX \/ left \/ right THEN otherNode.position.x ELSE acc.x,
              y |-> IF centerY \/ top \/ bottom THEN otherNode.position.y ELSE acc.y,
              guides |-> acc.guides
                         \o PushIf(centerX, Vertical(otherCenterX))
                         \o PushIf(left, Vertical(otherLeft))
                         \o PushIf(right, Vertical(otherRight))
                         \o PushIf(centerY, Horizontal(otherCenterY))
                         \o PushIf(top, Horizontal(otherTop))
                         \o PushIf(bottom, Horizontal(otherBottom))]

\* the loop taken from the last node to the first
RECURSIVE SnapLoopBackwards(_, _, _, _)
SnapLoopBackwards(acc, draggedNode, otherNodes, k) ==
    IF k > Len(otherNodes) THEN acc
    ELSE SnapLoopBackwards(
             SnapAgainst(acc, draggedNode, otherNodes[Len(otherNodes) - k + 1]),
             draggedNode, otherNodes, k + 1)

RECURSIVE SnapLoop(_, _, _, _)
SnapLoop(acc, draggedNode, otherNodes, k) ==
    IF k > Len(otherNodes) THEN acc
    ELSE SnapLoop(SnapAgainst(acc, draggedNode, otherNodes[k]), draggedNode,
                  otherNodes, k + 1)

calculateSnapping(draggedNode, otherNodes) ==
    LET acc == SnapLoop([x |-> draggedNode.position.x, y |-> draggedNode.position.y,
                         guides |-> <<>>], draggedNode, otherNodes, 1)
    IN  [snappedPosition |-> Pos(acc.x, acc.y), guides |-> acc.guides]

\* nodes.filter(node => node.id !== id)
OtherNodes(wf, id) == SelectSeq(wf.nodes, LAMBDA n : n.id # id)

\* handleNodeChange putting the updated node last, after the other nodes
handleNodeChangeMovedLast(prevWorkflow, updatedNode, dragging) ==
    LET otherNodes == OtherNodes(prevWorkflow, updatedNode.id)
        finalNode  == IF dragging
                      THEN [updatedNode EXCEPT !.position =
                               calculateSnapping(updatedNode, otherNodes).snappedPosition]
                      ELSE updatedNode
    IN  [prevWorkflow EXCEPT !.nodes = Append(otherNodes, finalNode)]

\* the workflow handleNodeChange(updatedNode, isDragging) sets
handleNodeChange(prevWorkflow, updatedNode, dragging) ==
    LET otherNodes == OtherNodes(prevWorkflow, updatedNode.id)
        finalNode  == IF dragging
                      THEN [updatedNode EXCEPT !.position =
                               calculateSnapping(updatedNode, otherNodes).snappedPosition]
                      ELSE updatedNode
    IN  [prevWorkflow EXCEPT !.nodes =
            [k \in 1..Len(prevWorkflow.nodes) |->
                IF prevWorkflow.nodes[k].id = updatedNode.id THEN finalNode
                ELSE prevWorkflow.nodes[k]]]

\* the effect on [currentDragNode, workflow.nodes]: the guides it sets
GuidesEffect(dragNode, wf) ==
    IF dragNode # nullObj /\ dragNode.isDragging
    THEN calculateSnapping(dragNode.node, OtherNodes(wf, dragNode.node.id)).guides
    ELSE <<>>

\* after workflow.nodes has changed outside a drag update: the guides effect
\* runs again, and a Node that is no longer rendered loses its state and its
\* document listeners
NodesChangeEffects ==
    /\ alignmentGuides' = GuidesEffect(currentDragNode, workflow')
    /\ IF draggingNodeId = null \/ draggingNodeId \in NodeIdsOf(workflow')
       THEN UNCHANGED <<draggingNodeId, dragStartRef, hasMouseMoved>>
       ELSE /\ draggingNodeId' = null
            /\ dragStartRef' = Pos(Num(0), Num(0))
            /\ hasMouseMoved' = FALSE
    /\ UNCHANGED currentDragNode

(***************************************************************************)
(* App: the host.                                                          *)
(***************************************************************************)
\* the new node with its corner at the drop position
NewNodePositionAtDrop(pending, config, random) ==
    IF pending # nullObj THEN pending.position ELSE random

\* the position addNode gives the new node
NewNodePosition(pending, config, random) ==
    IF pending # nullObj
    THEN LET isSourceOutput == pending.sourceType = "output"
             tempNode       == createNode("temp", "temp", Pos(Num(0), Num(0)), config)
             handleOffset   == getHandlePosition(tempNode, ~isSourceOutput, 0)
         IN  Pos(Minus(pending.position.x, handleOffset.x),
                 Minus(pending.position.y, handleOffset.y))
    ELSE random

\* the wire addNode builds between the pending connection and the new node
AutoWire(wireId, pending, newNode) ==
    LET isSourceOutput == pending.sourceType = "output"
    IN  [id           |-> wireId,
         sourceNodeId |-> IF isSourceOutput THEN pending.sourceNodeId ELSE newNode.id,
         targetNodeId |-> IF isSourceOutput THEN newNode.id ELSE pending.sourceNodeId,
         sourceOutput |-> IF isSourceOutput THEN toString(pending.sourceIndex)
                                            ELSE toString(0),
         targetInput  |-> IF isSourceOutput THEN toString(0)
                                            ELSE toString(pending.sourceIndex)]

\* the new node has a handle of the type opposite to the pending one
HasCompatibleHandle(pending, newNode) ==
    IF pending.sourceType = "output" THEN newNode.data.inputs > 0
                                     ELSE newNode.data.outputs > 0

\* the setWorkflow update of addNode
AddNodeUpdate(prev, pending, newNode, wireId) ==
    LET updatedWorkflow == addNodeToWorkflow(prev, newNode)
    IN  IF pending # nullObj /\ HasCompatibleHandle(pending, newNode)
        THEN [updatedWorkflow EXCEPT !.wires =
                 Append(@, AutoWire(wireId, pending, newNode))]
        ELSE updatedWorkflow

\* setShouldCancelConnection(true); setPendingConnection(null);
\* setTimeout(() => setShouldCancelConnection(false), 100); then the Canvas's
\* cancelConnection effect
CancelPending ==
    /\ cancelTimers < MaxTimers
    /\ shouldCancelConnection' = TRUE
    /\ pendingConnection' = nullObj
    /\ cancelTimers' = cancelTimers + 1
    /\ connectionState' = cancelConnectionEffect(TRUE, connectionState)

\* the picker's node-type button: addNode(nodeType); setIsSidebarOpen(false)
AddNode(nodeType, random) ==
    /\ isSidebarOpen
    /\ created < MaxNewNodes
    /\ LET config  == nodeConfigs[nodeType]
           newNode == createNode(NewNodeIds[created + 1], nodeType,
                          NewNodePosition(pendingConnection, config, random),
                          config)
       IN  workflow' = AddNodeUpdate(workflow, pendingConnection, newNode,
                                     NewWireIds[wired + 1])
    /\ wired' = wired + (Len(workflow'.wires) - Len(workflow.wires))
    /\ wired' <= MaxNewWires
    /\ created' = created + 1
    /\ IF pendingConnection # nullObj
       THEN CancelPending
       ELSE UNCHANGED <<shouldCancelConnection, pendingConnection, cancelTimers,
                        connectionState>>
    /\ isSidebarOpen' = FALSE
    /\ UNCHANGED <<selectedNodeIds, viewVars>>
    /\ RenderNodes({})
    /\ NodesChangeEffects
    /\ UNCHANGED ioVars

\* the "Add Node" button and the picker's close button
ToggleSidebar ==
    /\ isSidebarOpen' = ~isSidebarOpen
    /\ IF isSidebarOpen /\ pendingConnection # nullObj
       THEN CancelPending
       ELSE UNCHANGED <<shouldCancelConnection, pendingConnection, cancelTimers,
                        connectionState>>
    /\ UNCHANGED <<docVars, selectedNodeIds, viewVars>>
    /\ RenderNodes({})
    /\ UNCHANGED dragVars
    /\ UNCHANGED ioVars

\* a setTimeout(() => setShouldCancelConnection(false), 100) fires
CancelTimerFires ==
    /\ cancelTimers > 0
    /\ cancelTimers' = cancelTimers - 1
    /\ shouldCancelConnection' = FALSE
    /\ UNCHANGED <<docVars, isSidebarOpen, pendingConnection, selectedNodeIds,
                   nodeProps, connectionState, viewVars>>
    /\ UNCHANGED dragVars
    /\ UNCHANGED ioVars

(***************************************************************************)
(* Mouse and keyboard events.                                              *)
(***************************************************************************)
HasHandle(wf, nodeId, type, index) ==
    /\ nodeId \in NodeIdsOf(wf)
    /\ LET node == FindNode(wf, nodeId)
       IN  index < (IF type = "output" THEN node.data.outputs
                                       ELSE node.data.inputs)

\* mousedown on a handle: Node.handleConnectionStart (stops propagation)
HandleMouseDown(nodeId, type, index) ==
    /\ HasHandle(workflow, nodeId, type, index)
    /\ connectionState' =
          cancelConnectionEffect(shouldCancelConnection,
              handleStartConnection(nodeId, type, index,
                  HandleClientCentre(FindNode(workflow, nodeId), type, index,
                                     viewportTransform)))
    /\ UNCHANGED <<docVars, hostVars, selectedNodeIds, viewVars>>
    /\ RenderNodes({})
    /\ UNCHANGED dragVars
    /\ UNCHANGED ioVars

\* the pointer is over the handle the draft started on
OnSourceHandle(cs, nodeId, type, index) ==
    cs.sourceNodeId = nodeId /\ cs.sourceType = type /\ cs.sourceIndex = index

\* the connection states the onEndConnection of node nodeId may close over at
\* a pointer-up: the one of its last render, or, when moves of the pointer
\* have rendered the Canvas, the current one (the Node's own hover update and
\* the Canvas's update may be rendered in one batch)
PropsAtPointerUp(nodeId) ==
    {nodeProps[nodeId]} \cup
    (IF ~isSidebarOpen /\ connectionState.hasMouseMoved
     THEN {ClosedOver(connectionState)} ELSE {})

\* mouseup on a handle while connecting: Node.handleConnectionEnd (stops
\* propagation, so no document listener runs).  The pointer reaches another
\* handle only by moving, and a move made while the picker is closed is
\* recorded in hasMouseMoved.
HandleMouseUp(nodeId, type, index) ==
    /\ HasHandle(workflow, nodeId, type, index)
    /\ connectionState.isConnecting
    /\ \/ connectionState.hasMouseMoved
       \/ isSidebarOpen
       \/ OnSourceHandle(connectionState, nodeId, type, index)
    /\ \E cs \in PropsAtPointerUp(nodeId) :
          handleEndConnection(cs, nodeId, type, index)
    /\ wired' = wired + (Len(workflow'.wires) - Len(workflow.wires))
    /\ wired' <= MaxNewWires
    /\ UNCHANGED <<created, hostVars, selectedNodeIds, viewVars>>
    /\ RenderNodes({})
    /\ UNCHANGED dragVars
    /\ UNCHANGED ioVars

\* handleCanvasMouseMove: the document mousemove listener registered while
\* isPanning
handleCanvasMouseMove(vt, panning, start, p) ==
    IF panning
    THEN [vt EXCEPT !.x = Minus(p.x, start.x), !.y = Minus(p.y, start.y)]
    ELSE vt

\* a mousemove reaches the document
MouseMove(p) ==
    /\ draggingNodeId = null
    /\ connectionState' =
          handleMouseMove(connectionState, p, viewportTransform, isSidebarOpen)
    /\ viewportTransform' =
          handleCanvasMouseMove(viewportTransform, isPanning, panStart, p)
    /\ UNCHANGED <<docVars, hostVars, selectedNodeIds, nodeProps, isPanning,
                   panStart, touchState, touches, viewOps,
                   isMac>>
    /\ UNCHANGED dragVars
    /\ UNCHANGED ioVars

\* mousedown on the canvas or svg background with the primary button
handleCanvasMouseDown(p) ==
    /\ isPanning' = TRUE
    /\ panStart' = Pos(Minus(p.x, viewportTransform.x),
                       Minus(p.y, viewportTransform.y))

CanvasMouseDown(p) ==
    /\ viewOps < MaxViewOps
    /\ viewOps' = viewOps + 1
    /\ handleCanvasMouseDown(p)
    /\ UNCHANGED <<docVars, hostVars, selectedNodeIds, nodeProps,
                   connectionState, viewportTransform, touchState, touches,
                   isMac>>
    /\ UNCHANGED dragVars
    /\ UNCHANGED ioVars

\* a mouseup reaches the document (handleCanvasMouseUp is registered while
\* isPanning); released over the background, the click that follows goes to
\* handleCanvasClick
MouseUp(onBackground, p) ==
    /\ draggingNodeId = null
    /\ isPanning' = FALSE
    /\ IF onBackground
       THEN handleCanvasClick(isPanning', p)
       ELSE UNCHANGED <<selectedNodeIds, connectionState, pendingConnection,
                        isSidebarOpen>>
    /\ UNCHANGED <<docVars, shouldCancelConnection, cancelTimers,
                   viewportTransform, panStart, touchState, touches, viewOps,
                   isMac>>
    /\ RenderNodes({})
    /\ UNCHANGED dragVars
    /\ UNCHANGED ioVars

\* nodes deleted so far
DeletedNodes == Len(InitialWorkflow.nodes) + created - Len(workflow.nodes)

handleNodeDelete(nodeId) ==
    /\ workflow' = removeNodeFromWorkflow(workflow, nodeId)
    /\ selectedNodeIds' = selectedNodeIds \ {nodeId}

\* the delete button of a node's actions bar
NodeDeleteClick(nodeId) ==
    /\ nodeId \in NodeIdsOf(workflow)
    /\ DeletedNodes < MaxDeletedNodes
    /\ handleNodeDelete(nodeId)
    /\ UNCHANGED <<created, wired, hostVars, connectionState, viewVars>>
    /\ RenderNodes({})
    /\ NodesChangeEffects
    /\ UNCHANGED ioVars

\* the wire is drawn only when both its nodes are found
WireIsRendered(wf, w) ==
    w.sourceNodeId \in NodeIdsOf(wf) /\ w.targetNodeId \in NodeIdsOf(wf)

\* what Wire draws its path between: null when the component returns null,
\* else the handle positions of the parsed indices
WireEndpoints(wf, w) ==
    IF ~WireIsRendered(wf, w) THEN nullObj
    ELSE [sourcePos |-> getHandlePosition(FindNode(wf, w.sourceNodeId), TRUE,
                                          ParseIndex(w.sourceOutput)),
          targetPos |-> getHandlePosition(FindNode(wf, w.targetNodeId), FALSE,
                                          ParseIndex(w.targetInput))]

\* the delete button of a hovered wire: handleWireDelete
WireDeleteClick(wireId) ==
    /\ \E w \in Range(workflow.wires) : w.id = wireId /\ WireIsRendered(workflow, w)
    /\ workflow' = removeWireFromWorkflow(workflow, wireId)
    /\ UNCHANGED <<created, wired, hostVars, selectedNodeIds, nodeProps,
                   connectionState, viewVars>>
    /\ UNCHANGED dragVars
    /\ UNCHANGED ioVars

handleNodeSelect(selected, nodeId, isMultiSelect) ==
    IF isMultiSelect
    THEN IF nodeId \in selected THEN selected \ {nodeId} ELSE selected \cup {nodeId}
    ELSE {nodeId}

\* a node is pressed and released without moving: Node.handleMouseUp calls
\* onSelect(node.id), which passes no event
NodeClick(nodeId) ==
    /\ nodeId \in NodeIdsOf(workflow)
    /\ draggingNodeId = null
    /\ selectedNodeIds' = handleNodeSelect(selectedNodeIds, nodeId, FALSE)
    /\ UNCHANGED <<docVars, hostVars, connectionState, viewVars>>
    /\ RenderNodes({nodeId})
    /\ UNCHANGED dragVars
    /\ UNCHANGED ioVars

\* the client point p lies on the node as the initial viewport shows it
PointerOverNode(nodeId, p) ==
    LET node == FindNode(workflow, nodeId)
        dx   == Minus(p.x, node.position.x)
        dy   == Minus(p.y, node.position.y)
    IN  /\ ~Less(dx, Num(0)) /\ ~Less(Num(NODE_WIDTH), dx)
        /\ ~Less(dy, Num(0)) /\ ~Less(Num(NODE_HEIGHT), dy)

\* mousedown on a node: Node.handleMouseDown (the event does not propagate)
NodeMouseDown(nodeId, p) ==
    /\ alignmentGuides = GuidesEffect(currentDragNode, workflow)
    /\ nodeId \in NodeIdsOf(workflow)
    /\ PointerOverNode(nodeId, p)
    /\ draggingNodeId = null
    /\ draggingNodeId' = nodeId
    /\ hasMouseMoved' = FALSE
    /\ dragStartRef' = Pos(Minus(p.x, FindNode(workflow, nodeId).position.x),
                           Minus(p.y, FindNode(workflow, nodeId).position.y))
    /\ UNCHANGED <<docVars, hostVars, selectedNodeIds, nodeProps, connectionState,
                   viewVars, currentDragNode, alignmentGuides>>
    /\ UNCHANGED ioVars

\* a mousemove reaches the document while a Node is dragging: the Node's
\* handleMouseMove calls handleNodeChange(node, true), and the render of the
\* two state updates is committed.  An effect that is still pending runs
\* before any handler's updates are rendered, so every handler below finds
\* the guides of the state it starts from.
NodeMouseMove(p) ==
    /\ alignmentGuides = GuidesEffect(currentDragNode, workflow)
    /\ draggingNodeId # null
    /\ connectionState' =
          handleMouseMove(connectionState, p, viewportTransform, isSidebarOpen)
    /\ viewportTransform' =
          handleCanvasMouseMove(viewportTransform, isPanning, panStart, p)
    /\ hasMouseMoved' = TRUE
    /\ LET updatedNode == [FindNode(workflow, draggingNodeId) EXCEPT !.position =
                              Pos(Minus(p.x, dragStartRef.x), Minus(p.y, dragStartRef.y))]
       IN  /\ currentDragNode' = [node |-> updatedNode, isDragging |-> TRUE]
           /\ workflow' = handleNodeChange(workflow, updatedNode, TRUE)
    /\ UNCHANGED <<created, wired, hostVars, selectedNodeIds, isPanning, panStart,
                   touchState, touches, isMac, viewOps, draggingNodeId,
                   dragStartRef, alignmentGuides>>
    /\ RenderNodes({})
    /\ UNCHANGED ioVars

\* the effect on [currentDragNode, workflow.nodes] runs after the render of
\* a mousemove update has been committed, and sets the guides
GuidesEffectRuns ==
    /\ alignmentGuides # GuidesEffect(currentDragNode, workflow)
    /\ alignmentGuides' = GuidesEffect(currentDragNode, workflow)
    /\ UNCHANGED <<docVars, hostVars, selectedNodeIds, nodeProps, connectionState,
                   viewVars, draggingNodeId, dragStartRef, hasMouseMoved,
                   currentDragNode, ioVars>>

\* a mouseup reaches the document while a Node is dragging, the node under the
\* pointer: Node.handleMouseUp selects on a press without movement and calls
\* handleNodeDragEnd
NodeMouseUp ==
    /\ alignmentGuides = GuidesEffect(currentDragNode, workflow)
    /\ draggingNodeId # null
    /\ isPanning' = FALSE
    /\ selectedNodeIds' = IF ~hasMouseMoved
                          THEN handleNodeSelect(selectedNodeIds, draggingNodeId, FALSE)
                          ELSE selectedNodeIds
    /\ draggingNodeId' = null
    /\ hasMouseMoved' = FALSE
    /\ currentDragNode' = nullObj
    /\ alignmentGuides' = <<>>
    /\ UNCHANGED <<docVars, hostVars, connectionState, viewportTransform, panStart,
                   touchState, touches, isMac, viewOps, dragStartRef>>
    /\ RenderNodes({draggingNodeId})
    /\ UNCHANGED ioVars

\* keydown Escape: Canvas.handleKeyDown clears the selection; App's listener
\* cancels a pending connection and closes the picker
KeyEscape ==
    /\ alignmentGuides = GuidesEffect(currentDragNode, workflow)
    /\ selectedNodeIds' = {}
    /\ IF pendingConnection # nullObj
       THEN CancelPending /\ isSidebarOpen' = FALSE
       ELSE UNCHANGED <<shouldCancelConnection, pendingConnection, cancelTimers,
                        connectionState, isSidebarOpen>>
    /\ UNCHANGED <<docVars, viewVars>>
    /\ RenderNodes({})
    /\ UNCHANGED dragVars
    /\ UNCHANGED ioVars

\* keydown Delete with a selection: Canvas.handleKeyDown
KeyDelete ==
    /\ alignmentGuides = GuidesEffect(currentDragNode, workflow)
    /\ selectedNodeIds # {}
    /\ DeletedNodes < MaxDeletedNodes
    /\ workflow' = RemoveNodes(workflow, selectedNodeIds)
    /\ selectedNodeIds' = {}
    /\ connectionState' = IF connectionState.isConnecting THEN IdleConnection
                          ELSE connectionState
    /\ UNCHANGED <<created, wired, hostVars, viewVars>>
    /\ RenderNodes({})
    /\ NodesChangeEffects
    /\ UNCHANGED ioVars

(***************************************************************************)
(* Touch events.                                                           *)
(***************************************************************************)
\* Math.sqrt of the square of an integer
MathSqrt(a) == Num(CHOOSE r \in 0..MaxRoot : r * r = a[1])

getTouchDistance(touch1, touch2) ==
    LET dx == Minus(touch1.x, touch2.x)
        dy == Minus(touch1.y, touch2.y)
    IN  MathSqrt(Plus(Times(dx, dx), Times(dy, dy)))

getTouchCenter(touch1, touch2) ==
    Pos(Over(Plus(touch1.x, touch2.x), Num(2)),
        Over(Plus(touch1.y, touch2.y), Num(2)))

\* the centre of two touches relative to the canvas rectangle
CanvasCenter(ts) ==
    LET center == getTouchCenter(ts[1], ts[2])
    IN  Pos(Minus(center.x, Num(RectLeft)), Minus(center.y, Num(RectTop)))

\* handleTouchStart for event.touches = ts
handleTouchStart(ts, onBackground) ==
    IF Len(ts) = 2
    THEN /\ touchState' = [initialDistance |-> getTouchDistance(ts[1], ts[2]),
                           initialScale    |-> viewportTransform.scale,
                           initialCenter   |-> CanvasCenter(ts),
                           lastTouchCenter |-> CanvasCenter(ts)]
         /\ UNCHANGED <<isPanning, panStart>>
    ELSE IF Len(ts) = 1 /\ onBackground
    THEN /\ isPanning' = TRUE
         /\ panStart' = Pos(Minus(ts[1].x, viewportTransform.x),
                            Minus(ts[1].y, viewportTransform.y))
         /\ UNCHANGED touchState
    ELSE UNCHANGED <<touchState, isPanning, panStart>>

\* the viewport handleTouchMove sets for two touches
PinchTransform(ts, state, vt) ==
    LET distance    == getTouchDistance(ts[1], ts[2])
        scaleChange == Over(distance, state.initialDistance)
        newScale    == MathMax(Over(Num(1), Num(10)),
                               MathMin(Num(3), Times(state.initialScale, scaleChange)))
        scaleDelta  == Over(newScale, vt.scale)
    IN  [x |-> Minus(state.initialCenter.x,
                     Times(Minus(state.initialCenter.x, vt.x), scaleDelta)),
         y |-> Minus(state.initialCenter.y,
                     Times(Minus(state.initialCenter.y, vt.y), scaleDelta)),
         scale |-> newScale]

\* handleTouchMove for event.touches = ts
handleTouchMove(ts, state, panning, start, vt) ==
    IF Len(ts) = 2 /\ state # nullObj
    THEN PinchTransform(ts, state, vt)
    ELSE IF Len(ts) = 1 /\ panning
    THEN [vt EXCEPT !.x = Minus(ts[1].x, start.x), !.y = Minus(ts[1].y, start.y)]
    ELSE vt

\* handleTouchEnd for event.touches = ts
handleTouchEnd(ts) ==
    /\ touchState' = IF Len(ts) < 2 THEN nullObj ELSE touchState
    /\ isPanning' = IF Len(ts) = 0 THEN FALSE ELSE isPanning

\* a finger is put down at p, on the background or on a node
TouchStart(p, onBackground) ==
    /\ Len(touches) < 2
    /\ viewOps < MaxViewOps
    /\ viewOps' = viewOps + 1
    /\ touches' = Append(touches, p)
    /\ handleTouchStart(touches', onBackground)
    /\ UNCHANGED <<docVars, hostVars, selectedNodeIds, nodeProps,
                   connectionState, viewportTransform,
                   isMac>>
    /\ UNCHANGED dragVars
    /\ UNCHANGED ioVars

\* finger k moves to p
TouchMove(k, p) ==
    /\ k \in 1..Len(touches)
    /\ p # touches[k]
    /\ touches' = [touches EXCEPT ![k] = p]
    /\ viewportTransform' =
          handleTouchMove(touches', touchState, isPanning, panStart,
                          viewportTransform)
    /\ UNCHANGED <<docVars, hostVars, selectedNodeIds, nodeProps,
                   connectionState, isPanning, panStart, touchState, viewOps,
                   isMac>>
    /\ UNCHANGED dragVars
    /\ UNCHANGED ioVars

\* finger k is lifted
TouchEnd(k) ==
    /\ k \in 1..Len(touches)
    /\ touches' = SubSeq(touches, 1, k - 1) \o SubSeq(touches, k + 1, Len(touches))
    /\ handleTouchEnd(touches')
    /\ UNCHANGED <<docVars, hostVars, selectedNodeIds, nodeProps,
                   connectionState, viewportTransform, panStart, viewOps,
                   isMac>>
    /\ UNCHANGED dragVars
    /\ UNCHANGED ioVars

(***************************************************************************)
(* Zoom: the wheel and the zoom controls.                                  *)
(***************************************************************************)
\* handleWheel for a wheel event at client point p
handleWheel(vt, mac, p, deltaY, ctrlKey) ==
    LET isTrackpadPinch  == ctrlKey
        isTrackpadScroll == /\ ~ctrlKey
                            /\ Less(MathAbs(deltaY), Num(50))
                            /\ HasFraction(deltaY)
        isCtrlScroll     == ctrlKey /\ ~Less(MathAbs(deltaY), Num(50))
        shouldZoom       == IF mac
                            THEN isTrackpadPinch \/ isTrackpadScroll \/ isCtrlScroll
                            ELSE ~ctrlKey
        zoomFactor       == IF mac
                            THEN IF isTrackpadPinch
                                 THEN Times(MathAbs(deltaY), <<1, 1000>>)
                                 ELSE IF isTrackpadScroll
                                 THEN Times(MathAbs(deltaY), <<1, 100>>)
                                 ELSE <<1, 10>>
                            ELSE <<1, 10>>
        zoomDirection    == IF Less(Num(0), deltaY) THEN Num(-1) ELSE Num(1)
        newScale         == MathMax(<<1, 10>>,
                                MathMin(Num(3),
                                    Plus(vt.scale, Times(zoomDirection, zoomFactor))))
        mouseX           == Minus(p.x, Num(RectLeft))
        mouseY           == Minus(p.y, Num(RectTop))
        scaleDelta       == Over(newScale, vt.scale)
    IN  IF shouldZoom /\ StrictNotEqual(newScale, vt.scale)
        THEN [x |-> Minus(mouseX, Times(Minus(mouseX, vt.x), scaleDelta)),
              y |-> Minus(mouseY, Times(Minus(mouseY, vt.y), scaleDelta)),
              scale |-> newScale]
        ELSE vt

\* a reduction that keeps the later node on a tie
RECURSIVE ReduceTopLeftLatest(_, _, _)
ReduceTopLeftLatest(nodes, k, closest) ==
    IF k > Len(nodes) THEN closest
    ELSE LET node         == nodes[k]
             nodeScore    == Plus(node.position.x, node.position.y)
             closestScore == Plus(closest.position.x, closest.position.y)
         IN  ReduceTopLeftLatest(nodes, k + 1,
                 IF Less(closestScore, nodeScore) THEN closest ELSE node)

\* nodes.reduce((closest, node) => score(node) < score(closest) ? node : closest)
RECURSIVE ReduceTopLeft(_, _, _)
ReduceTopLeft(nodes, k, closest) ==
    IF k > Len(nodes) THEN closest
    ELSE LET node         == nodes[k]
             nodeScore    == Plus(node.position.x, node.position.y)
             closestScore == Plus(closest.position.x, closest.position.y)
         IN  ReduceTopLeft(nodes, k + 1,
                 IF Less(nodeScore, closestScore) THEN node ELSE closest)

TopLeftNode(wf) == ReduceTopLeft(wf.nodes, 2, wf.nodes[1])

\* the centre of the top-left-most node in screen coordinates
getContentCenter(wf, vt) ==
    IF Len(wf.nodes) = 0
    THEN Pos(Over(Num(CanvasWidth), Num(2)), Over(Num(CanvasHeight), Num(2)))
    ELSE LET topLeftNode == TopLeftNode(wf)
             nodeCenterX == Plus(topLeftNode.position.x, Over(Num(NODE_WIDTH), Num(2)))
             nodeCenterY == Plus(topLeftNode.position.y, Over(Num(NODE_HEIGHT), Num(2)))
         IN  Pos(Plus(Times(nodeCenterX, vt.scale), vt.x),
                 Plus(Times(nodeCenterY, vt.scale), vt.y))

SnapToUnitOff(newScale) == newScale

\* "Snap to 100% if close"
SnapToUnit(newScale) ==
    IF Less(MathAbs(Minus(newScale, Num(1))), <<1, 10>>) THEN Num(1) ELSE newScale

\* the viewport zoomIn and zoomOut set for the stepped scale
ZoomToContent(wf, vt, newScale) ==
    IF StrictNotEqual(newScale, vt.scale)
    THEN LET contentCenter == getContentCenter(wf, vt)
             scaleDelta    == Over(newScale, vt.scale)
         IN  [x |-> Minus(contentCenter.x,
                          Times(Minus(contentCenter.x, vt.x), scaleDelta)),
              y |-> Minus(contentCenter.y,
                          Times(Minus(contentCenter.y, vt.y), scaleDelta)),
              scale |-> newScale]
    ELSE vt

zoomIn(wf, vt) ==
    ZoomToContent(wf, vt, SnapToUnit(MathMin(Num(3), Plus(vt.scale, <<1, 5>>))))

zoomOut(wf, vt) ==
    ZoomToContent(wf, vt, SnapToUnit(MathMax(<<1, 10>>, Minus(vt.scale, <<1, 5>>))))

resetZoom(wf) ==
    IF Len(wf.nodes) = 0
    THEN [x |-> Num(0), y |-> Num(0), scale |-> Num(1)]
    ELSE LET topLeftNode == TopLeftNode(wf)
             nodeCenterX == Plus(topLeftNode.position.x, Over(Num(NODE_WIDTH), Num(2)))
             nodeCenterY == Plus(topLeftNode.position.y, Over(Num(NODE_HEIGHT), Num(2)))
         IN  [x |-> Minus(Over(Num(CanvasWidth), Num(2)), nodeCenterX),
              y |-> Minus(Over(Num(CanvasHeight), Num(2)), nodeCenterY),
              scale |-> Num(1)]

\* a wheel event over the canvas
Wheel(p, deltaY, ctrlKey) ==
    /\ viewOps < MaxViewOps
    /\ viewOps' = viewOps + 1
    /\ viewportTransform' = handleWheel(viewportTransform, isMac, p, deltaY, ctrlKey)
    /\ UNCHANGED <<docVars, hostVars, selectedNodeIds, nodeProps,
                   connectionState, isPanning, panStart, touchState, touches,
                   isMac>>
    /\ UNCHANGED dragVars
    /\ UNCHANGED ioVars

\* a press of the zoom-in control
ZoomInClick ==
    /\ viewOps < MaxViewOps
    /\ viewOps' = viewOps + 1
    /\ viewportTransform' = zoomIn(workflow, viewportTransform)
    /\ UNCHANGED <<docVars, hostVars, selectedNodeIds, nodeProps,
                   connectionState, isPanning, panStart, touchState, touches,
                   isMac>>
    /\ UNCHANGED dragVars
    /\ UNCHANGED ioVars

\* a press of the zoom-out control
ZoomOutClick ==
    /\ viewOps < MaxViewOps
    /\ viewOps' = viewOps + 1
    /\ viewportTransform' = zoomOut(workflow, viewportTransform)
    /\ UNCHANGED <<docVars, hostVars, selectedNodeIds, nodeProps,
                   connectionState, isPanning, panStart, touchState, touches,
                   isMac>>
    /\ UNCHANGED dragVars
    /\ UNCHANGED ioVars

\* the zoom-in or zoom-out control is pressed and released on the <svg> of its
\* icon, at client point p: the mousedown and the click reach the canvas with a
\* target whose tagName is 'svg' (handleCanvasMouseDown, then handleCanvasMouseUp
\* at the release); the click runs the control's handler, then handleCanvasClick
ZoomIconClick(vt, p) ==
    /\ viewOps < MaxViewOps
    /\ viewOps' = viewOps + 1
    /\ panStart' = Pos(Minus(p.x, viewportTransform.x),
                       Minus(p.y, viewportTransform.y))
    /\ isPanning' = FALSE
    /\ viewportTransform' = vt
    /\ handleCanvasClick(isPanning', p)

ZoomInIconClick(p) ==
    /\ ZoomIconClick(zoomIn(workflow, viewportTransform), p)
    /\ UNCHANGED <<docVars, shouldCancelConnection, cancelTimers, touchState,
                   touches, isMac>>
    /\ UNCHANGED dragVars
    /\ RenderNodes({})
    /\ UNCHANGED ioVars

ZoomOutIconClick(p) ==
    /\ ZoomIconClick(zoomOut(workflow, viewportTransform), p)
    /\ UNCHANGED <<docVars, shouldCancelConnection, cancelTimers, touchState,
                   touches, isMac>>
    /\ UNCHANGED dragVars
    /\ RenderNodes({})
    /\ UNCHANGED ioVars

\* a press of the reset control
ResetZoomClick ==
    /\ viewOps < MaxViewOps
    /\ viewOps' = viewOps + 1
    /\ viewportTransform' = resetZoom(workflow)
    /\ UNCHANGED <<docVars, hostVars, selectedNodeIds, nodeProps,
                   connectionState, isPanning, panStart, touchState, touches,
                   isMac>>
    /\ UNCHANGED dragVars
    /\ UNCHANGED ioVars

(***************************************************************************)
(* Wire geometry.  A path is the four points of `M start C control1        *)
(* control2 end`; the arrow's angle is not modelled.  Math.sqrt is         *)
(* computed for the squares of integers only.                              *)
(***************************************************************************)
\* Wire: the path between the positions of the source and the target handle
WirePath(sourcePos, targetPos) ==
    LET dx     == Minus(targetPos.x, sourcePos.x)
        dy     == Minus(targetPos.y, sourcePos.y)
        length == MathSqrt(Plus(Times(dx, dx), Times(dy, dy)))
        unitX  == Over(dx, length)
        unitY  == Over(dy, length)
        handleOffset      == Num(10)
        adjustedSourcePos == Pos(Plus(sourcePos.x, Times(unitX, handleOffset)),
                                 Plus(sourcePos.y, Times(unitY, handleOffset)))
        adjustedTargetPos == Pos(Minus(targetPos.x, Times(unitX, handleOffset)),
                                 Minus(targetPos.y, Times(unitY, handleOffset)))
        span      == MathAbs(Minus(adjustedTargetPos.x, adjustedSourcePos.x))
        controlX1 == Plus(adjustedSourcePos.x, Times(span, <<3, 10>>))
        controlX2 == Minus(adjustedTargetPos.x, Times(span, <<3, 10>>))
    IN  [start    |-> adjustedSourcePos,
         control1 |-> Pos(controlX1, adjustedSourcePos.y),
         control2 |-> Pos(controlX2, adjustedTargetPos.y),
         end      |-> adjustedTargetPos]

\* Canvas: the path of the temporary connection line, or null when the line
\* is not rendered
TemporaryPath(wf, cs) ==
    IF ~( /\ cs.isConnecting
          /\ cs.currentPosition # nullObj
          /\ cs.sourceNodeId # null
          /\ cs.hasMouseMoved )
    THEN nullObj
    ELSE IF cs.sourceNodeId \notin NodeIdsOf(wf) THEN nullObj
    ELSE LET isOutput       == cs.sourceType = "output"
             handlePosition == getHandlePosition(FindNode(wf, cs.sourceNodeId),
                                                 isOutput, cs.sourceIndex)
             source == IF isOutput THEN handlePosition ELSE cs.currentPosition
             target == IF isOutput THEN cs.currentPosition ELSE handlePosition
             dx     == Minus(target.x, source.x)
             dy     == Minus(target.y, source.y)
             length == MathSqrt(Plus(Times(dx, dx), Times(dy, dy)))
             unitX  == Over(dx, length)
             unitY  == Over(dy, length)
             handleOffset   == Num(10)
             moved          == Less(Num(0), length)
             adjustedSource == IF moved /\ isOutput
                               THEN Pos(Plus(source.x, Times(unitX, handleOffset)),
                                        Plus(source.y, Times(unitY, handleOffset)))
                               ELSE source
             adjustedTarget == IF moved /\ ~isOutput
                               THEN Pos(Minus(target.x, Times(unitX, handleOffset)),
                                        Minus(target.y, Times(unitY, handleOffset)))
                               ELSE target
             span      == MathAbs(Minus(adjustedTarget.x, adjustedSource.x))
             controlX1 == Plus(adjustedSource.x, Times(span, <<3, 10>>))
             controlX2 == Minus(adjustedTarget.x, Times(span, <<3, 10>>))
         IN  [start    |-> adjustedSource,
              control1 |-> Pos(controlX1, adjustedSource.y),
              control2 |-> Pos(controlX2, adjustedTarget.y),
              end      |-> adjustedTarget]

(***************************************************************************)
(* utils: serialization.  A JavaScript value is a record that carries its  *)
(* kind: undefined, null, boolean, number, string, array (a sequence of    *)
(* values) or object (a function from property names to values).  A text   *)
(* is either not JSON, or the JSON value it denotes, which is what         *)
(* JSON.parse gives for it; JSON.stringify writes the text of the value    *)
(* that is left after its conversions.                                     *)
(***************************************************************************)
\* the JavaScript value of a workflow of the model; a handle list of n
\* handles is an array of n handle descriptions
WorkflowValue(wf) ==
    LET Str(s) == [kind |-> "string", value |-> s]
        Opt(s) == IF s = undefined THEN [kind |-> "undefined"] ELSE Str(s)
        Number(a) == [kind |-> "number", value |-> a]
        Handles(n) ==
            [kind |-> "array",
             value |-> [k \in 1..n |->
                          [kind |-> "object", value |-> [type |-> Str("any")]]]]
        NodeValue(n) ==
            [kind |-> "object",
             value |-> [id |-> Str(n.id), type |-> Str(n.type),
                        position |->
                            [kind |-> "object",
                             value |-> [x |-> Number(n.position.x),
                                        y |-> Number(n.position.y)]],
                        data |->
                            [kind |-> "object",
                             value |-> [inputs |-> Handles(n.data.inputs),
                                        outputs |-> Handles(n.data.outputs)]]]]
        WireValue(w) ==
            [kind |-> "object",
             value |-> [id |-> Str(w.id), sourceNodeId |-> Str(w.sourceNodeId),
                        targetNodeId |-> Str(w.targetNodeId),
                        sourceOutput |-> Opt(w.sourceOutput),
                        targetInput |-> Opt(w.targetInput)]]
    IN  [kind |-> "object",
         value |-> [nodes |-> [kind |-> "array",
                               value |-> [k \in 1..Len(wf.nodes) |->
                                            NodeValue(wf.nodes[k])]],
                    wires |-> [kind |-> "array",
                               value |-> [k \in 1..Len(wf.wires) |->
                                            WireValue(wf.wires[k])]]]]

\* JSON.stringify's conversion of a value: a property whose value is
\* undefined is left out, an undefined array element and a number that is
\* not finite are written as null
RECURSIVE JsonValue(_)
JsonValue(v) ==
    CASE v.kind = "object" ->
            [kind |-> "object",
             value |-> [k \in {j \in DOMAIN v.value :
                                  v.value[j].kind # "undefined"} |->
                          JsonValue(v.value[k])]]
      [] v.kind = "array" ->
            [kind |-> "array",
             value |-> [k \in 1..Len(v.value) |-> JsonValue(v.value[k])]]
      [] v.kind = "number" ->
            IF IsFinite(v.value) THEN v ELSE [kind |-> "null"]
      [] v.kind = "undefined" -> [kind |-> "null"]
      [] OTHER -> v

serializeWorkflow(wf) ==
    [valid |-> TRUE, value |-> JsonValue(WorkflowValue(wf))]

\* a reader that takes the nodes and drops the wires
deserializeWorkflowNodesOnly(json) ==
    LET empty == [kind |-> "array", value |-> <<>>]
    IN  IF /\ json.valid
           /\ json.value.kind = "object"
           /\ "nodes" \in DOMAIN json.value.value
        THEN [nodes |-> json.value.value.nodes, wires |-> empty]
        ELSE [nodes |-> empty, wires |-> empty]

\* JSON.parse throws on a text that is not JSON, and reading a property of
\* null throws; both are caught.  `a || b` is b when a is falsy.
deserializeWorkflow(json) ==
    LET empty == [kind |-> "array", value |-> <<>>]
        parsed == json.value
        Property(key) ==
            IF parsed.kind = "object" /\ key \in DOMAIN parsed.value
            THEN parsed.value[key]
            ELSE [kind |-> "undefined"]
        Falsy(v) ==
            \/ v.kind \in {"undefined", "null"}
            \/ v.kind = "boolean" /\ ~v.value
            \/ v.kind = "number" /\ v.value \in {Num(0), NaN}
            \/ v.kind = "string" /\ v.value = ""
        Or(a, b) == IF Falsy(a) THEN b ELSE a
    IN  IF ~json.valid \/ parsed.kind = "null"
        THEN [nodes |-> empty, wires |-> empty]
        ELSE [nodes |-> Or(Property("nodes"), empty),
              wires |-> Or(Property("wires"), empty)]

\* texts handed to deserializeWorkflow: text that is not JSON, JSON that is
\* not an object, and objects whose nodes and wires are absent, of a wrong
\* kind, or arrays
Texts ==
    LET absent == [kind |-> "undefined"]
        Fields ==
            {absent, [kind |-> "null"],
             [kind |-> "boolean", value |-> FALSE],
             [kind |-> "number", value |-> Num(0)],
             [kind |-> "number", value |-> Num(5)],
             [kind |-> "string", value |-> ""],
             [kind |-> "string", value |-> "none"],
             [kind |-> "object", value |-> [length |-> [kind |-> "number",
                                                        value |-> Num(0)]]],
             [kind |-> "array", value |-> <<>>],
             [kind |-> "array", value |-> <<[kind |-> "null"]>>]}
        Object(n, w) ==
            LET all == [nodes |-> n, wires |-> w]
            IN  [kind |-> "object",
                 value |-> [k \in {j \in {"nodes", "wires"} : all[j] # absent}
                              |-> all[k]]]
    IN  {[valid |-> FALSE]}
        \cup {[valid |-> TRUE, value |-> v] : v \in Fields \ {absent}}
        \cup {[valid |-> TRUE, value |-> Object(n, w)] : n, w \in Fields}

\* App: the export button writes the workflow's text to the clipboard
exportWorkflow ==
    /\ clipboard' = serializeWorkflow(workflow)
    /\ UNCHANGED <<docVars, hostVars, selectedNodeIds, nodeProps,
                   connectionState, viewVars, dragVars, deserialized>>

\* a host reads a workflow back from the text it holds
Deserialize ==
    /\ clipboard # nullObj
    /\ deserialized' = deserializeWorkflow(clipboard)
    /\ UNCHANGED <<docVars, hostVars, selectedNodeIds, nodeProps,
                   connectionState, viewVars, dragVars, clipboard>>

(***************************************************************************)
(* Specifications.                                                         *)
(***************************************************************************)
\* editing the document: connection gestures, the picker, deletion, keys
Next ==
    \/ \E n \in NodeIdsOf(workflow), t \in HandleTypes, i \in 0..1 :
          HandleMouseDown(n, t, i)
    \/ \E n \in NodeIdsOf(workflow), t \in HandleTypes, i \in 0..1 :
          HandleMouseUp(n, t, i)
    \/ \E p \in DocPoints : MouseMove(p)
    \/ \E b \in BOOLEAN, p \in DocPoints : MouseUp(b, p)
    \/ \E n \in NodeIdsOf(workflow) : NodeDeleteClick(n)
    \/ KeyEscape
    \/ ToggleSidebar
    \/ \E t \in NodeTypes, r \in RandomPositions : AddNode(t, r)
    \/ CancelTimerFires

Spec == Init /\ [][Next]_vars

\* gestures on the canvas: connection drags, mouse pan, touch pan and pinch
NextGesture ==
    \/ \E n \in GestureNodes, t \in GestureTypes, i \in 0..1 :
          HandleMouseDown(n, t, i)
    \/ \E p \in Points : MouseMove(p)
    \/ \E p \in Points : CanvasMouseDown(p)
    \/ \E b \in BOOLEAN, p \in Points : MouseUp(b, p)
    \/ \E p \in TouchPoints \ Range(touches), b \in BOOLEAN : TouchStart(p, b)
    \/ \E k \in 1..2, p \in TouchPoints \ Range(touches) : TouchMove(k, p)
    \/ \E k \in 1..2 : TouchEnd(k)
    \/ KeyEscape
    \/ CancelTimerFires

SpecGesture == Init /\ [][NextGesture]_vars

\* selection and keys during connection gestures
NextKeys ==
    \/ \E n \in NodeIdsOf(workflow), t \in HandleTypes, i \in 0..1 :
          HandleMouseDown(n, t, i)
    \/ \E n \in NodeIdsOf(workflow), t \in HandleTypes, i \in 0..1 :
          HandleMouseUp(n, t, i)
    \/ \E p \in DocPoints : MouseMove(p)
    \/ \E b \in BOOLEAN, p \in DocPoints : MouseUp(b, p)
    \/ \E n \in NodeIdsOf(workflow) : NodeClick(n)
    \/ \E w \in Range(workflow.wires) : WireDeleteClick(w.id)
    \/ KeyEscape
    \/ KeyDelete
    \/ CancelTimerFires

SpecKeys == Init /\ [][NextKeys]_vars

\* a workflow whose wires carry their handle indices, as the wires a gesture
\* makes do
WiredWorkflow ==
    createWorkflow(InitialWorkflow.nodes,
        <<createWire("wire-1", "node-1", "node-2", toString(0), toString(0)),
          createWire("wire-2", "node-2", "node-3", toString(0), toString(0))>>)

InitWired ==
    /\ workflow = WiredWorkflow
    /\ created = 0
    /\ wired = 0
    /\ isSidebarOpen = FALSE
    /\ pendingConnection = nullObj
    /\ shouldCancelConnection = FALSE
    /\ cancelTimers = 0
    /\ selectedNodeIds = {}
    /\ nodeProps = [n \in NodeIdsOf(WiredWorkflow) |->
                        [isConnecting |-> FALSE, sourceNodeId |-> null,
                         sourceType |-> null, sourceIndex |-> null]]
    /\ connectionState = IdleConnection
    /\ viewportTransform = [x |-> Num(0), y |-> Num(0), scale |-> Num(1)]
    /\ isPanning = FALSE
    /\ panStart = Pos(Num(0), Num(0))
    /\ touchState = nullObj
    /\ touches = <<>>
    /\ isMac = FALSE
    /\ draggingNodeId = null
    /\ dragStartRef = Pos(Num(0), Num(0))
    /\ hasMouseMoved = FALSE
    /\ currentDragNode = nullObj
    /\ alignmentGuides = <<>>
    /\ viewOps = 0
    /\ clipboard = nullObj
    /\ deserialized = nullObj

\* connection gestures over a workflow that already has gesture-made wires
NextWires ==
    \/ \E n \in NodeIdsOf(workflow), t \in HandleTypes, i \in 0..1 :
          HandleMouseDown(n, t, i)
    \/ \E n \in NodeIdsOf(workflow), t \in HandleTypes, i \in 0..1 :
          HandleMouseUp(n, t, i)
    \/ \E p \in Points : MouseMove(p)
    \/ \E b \in BOOLEAN, p \in Points : MouseUp(b, p)
    \/ KeyEscape
    \/ ToggleSidebar
    \/ CancelTimerFires

SpecWires == InitWired /\ [][NextWires]_vars

\* the viewport at a scale of StartScales, on either platform
InitZoom ==
    /\ workflow = InitialWorkflow
    /\ created = 0
    /\ wired = 0
    /\ isSidebarOpen = FALSE
    /\ pendingConnection = nullObj
    /\ shouldCancelConnection = FALSE
    /\ cancelTimers = 0
    /\ selectedNodeIds = {}
    /\ nodeProps = [n \in NodeIdsOf(InitialWorkflow) |->
                        [isConnecting |-> FALSE, sourceNodeId |-> null,
                         sourceType |-> null, sourceIndex |-> null]]
    /\ connectionState = IdleConnection
    /\ \E s \in StartScales :
          viewportTransform = [x |-> Num(0), y |-> Num(0), scale |-> s]
    /\ isPanning = FALSE
    /\ panStart = Pos(Num(0), Num(0))
    /\ touchState = nullObj
    /\ touches = <<>>
    /\ isMac \in BOOLEAN
    /\ draggingNodeId = null
    /\ dragStartRef = Pos(Num(0), Num(0))
    /\ hasMouseMoved = FALSE
    /\ currentDragNode = nullObj
    /\ alignmentGuides = <<>>
    /\ viewOps = 0
    /\ clipboard = nullObj
    /\ deserialized = nullObj

\* zooming and panning the viewport: wheel, controls, mouse pan, touches (two
\* fingers may be at one point)
NextZoom ==
    \/ \E p \in Points, d \in WheelDeltas, c \in BOOLEAN : Wheel(p, d, c)
    \/ ZoomInClick
    \/ ZoomOutClick
    \/ ResetZoomClick
    \/ \E p \in Points : CanvasMouseDown(p)
    \/ \E p \in Points : MouseMove(p)
    \/ \E b \in BOOLEAN, p \in Points : MouseUp(b, p)
    \/ \E p \in TouchPoints, b \in BOOLEAN : TouchStart(p, b)
    \/ \E k \in 1..2, p \in TouchPoints : TouchMove(k, p)
    \/ \E k \in 1..2 : TouchEnd(k)

SpecZoom == InitZoom /\ [][NextZoom]_vars

\* the client point at which a node is grabbed, under the initial viewport
GrabPoint(nodeId) ==
    Pos(Plus(FindNode(workflow, nodeId).position.x, GrabOffset.x),
        Plus(FindNode(workflow, nodeId).position.y, GrabOffset.y))

\* dragging nodes: presses, moves and releases of a node, and the keys
NextDrag ==
    \/ \E n \in NodeIdsOf(workflow) : NodeMouseDown(n, GrabPoint(n))
    \/ \E p \in DragPoints : NodeMouseMove(p)
    \/ GuidesEffectRuns
    \/ NodeMouseUp
    \/ KeyEscape
    \/ KeyDelete

SpecDrag == Init /\ [][NextDrag]_vars

\* a workflow of two nodes, the first with 1..MaxHandles handles on each side
InitHandles ==
    /\ \E a \in 1..MaxHandles, b \in 1..MaxHandles :
          workflow = createWorkflow(
              <<createNode("node-1", "custom", Pos(Num(100), Num(100)),
                           [inputs |-> a, outputs |-> b]),
                createNode("node-2", "action", Pos(Num(350), Num(100)),
                           [inputs |-> 1, outputs |-> 1])>>,
              <<>>)
    /\ created = 0
    /\ wired = 0
    /\ isSidebarOpen = FALSE
    /\ pendingConnection = nullObj
    /\ shouldCancelConnection = FALSE
    /\ cancelTimers = 0
    /\ selectedNodeIds = {}
    /\ nodeProps = [n \in {"node-1", "node-2"} |->
                        [isConnecting |-> FALSE, sourceNodeId |-> null,
                         sourceType |-> null, sourceIndex |-> null]]
    /\ connectionState = IdleConnection
    /\ viewportTransform = [x |-> Num(0), y |-> Num(0), scale |-> Num(1)]
    /\ isPanning = FALSE
    /\ panStart = Pos(Num(0), Num(0))
    /\ touchState = nullObj
    /\ touches = <<>>
    /\ isMac = FALSE
    /\ draggingNodeId = null
    /\ dragStartRef = Pos(Num(0), Num(0))
    /\ hasMouseMoved = FALSE
    /\ currentDragNode = nullObj
    /\ alignmentGuides = <<>>
    /\ viewOps = 0
    /\ clipboard = nullObj
    /\ deserialized = nullObj

\* drafts from and to every handle of the nodes
NextHandles ==
    \/ \E n \in NodeIdsOf(workflow), t \in HandleTypes, i \in 0..(MaxHandles - 1) :
          HandleMouseDown(n, t, i)
    \/ \E n \in NodeIdsOf(workflow), t \in HandleTypes, i \in 0..(MaxHandles - 1) :
          HandleMouseUp(n, t, i)
    \/ \E p \in DocPoints : MouseMove(p)
    \/ \E b \in BOOLEAN, p \in DocPoints : MouseUp(b, p)
    \/ KeyEscape
    \/ ToggleSidebar
    \/ CancelTimerFires

SpecHandles == InitHandles /\ [][NextHandles]_vars

\* the demo nodes with one wire as the host may hand it over: its ends on
\* present or absent nodes, its handle indices absent or "1"
InitRender ==
    /\ \E src \in {"node-1", "node-9"}, tgt \in {"node-2", "node-9"},
          out \in {undefined, "1"}, in \in {undefined, "1"} :
          workflow = createWorkflow(InitialWorkflow.nodes,
                                    <<createWire("wire-1", src, tgt, out, in)>>)
    /\ created = 0
    /\ wired = 0
    /\ isSidebarOpen = FALSE
    /\ pendingConnection = nullObj
    /\ shouldCancelConnection = FALSE
    /\ cancelTimers = 0
    /\ selectedNodeIds = {}
    /\ nodeProps = [n \in NodeIdsOf(InitialWorkflow) |->
                        [isConnecting |-> FALSE, sourceNodeId |-> null,
                         sourceType |-> null, sourceIndex |-> null]]
    /\ connectionState = IdleConnection
    /\ viewportTransform = [x |-> Num(0), y |-> Num(0), scale |-> Num(1)]
    /\ isPanning = FALSE
    /\ panStart = Pos(Num(0), Num(0))
    /\ touchState = nullObj
    /\ touches = <<>>
    /\ isMac = FALSE
    /\ draggingNodeId = null
    /\ dragStartRef = Pos(Num(0), Num(0))
    /\ hasMouseMoved = FALSE
    /\ currentDragNode = nullObj
    /\ alignmentGuides = <<>>
    /\ viewOps = 0
    /\ clipboard = nullObj
    /\ deserialized = nullObj

SpecRender == InitRender /\ [][NextWires]_vars

\* drafts released over the canvas, and the zoom controls pressed on their
\* icons
NextRequest ==
    \/ \E n \in GestureNodes, t \in GestureTypes, i \in 0..1 :
          HandleMouseDown(n, t, i)
    \/ \E n \in GestureNodes, t \in HandleTypes : HandleMouseUp(n, t, 0)
    \/ \E p \in DocPoints : MouseMove(p)
    \/ \E b \in BOOLEAN, p \in DocPoints : MouseUp(b, p)
    \/ ZoomInIconClick(ZoomInIconPoint)
    \/ ZoomOutIconClick(ZoomOutIconPoint)
    \/ KeyEscape
    \/ ToggleSidebar
    \/ CancelTimerFires

SpecRequest == Init /\ [][NextRequest]_vars

\* the positions of the second node of the snap specification: far from the
\* first node, and within 8 of it on one axis
SecondNodePositions ==
    {Pos(Num(350), Num(100)), Pos(Num(94), Num(200)), Pos(Num(106), Num(300)),
     Pos(Num(350), Num(107))}

\* three nodes as a host may hand them over or the picker may place them
InitSnap ==
    /\ \E q \in SecondNodePositions :
          workflow = createWorkflow(
              <<createNode("node-1", "trigger", Pos(Num(100), Num(100)),
                           [inputs |-> 0, outputs |-> 1]),
                createNode("node-2", "action", q, [inputs |-> 1, outputs |-> 1]),
                createNode("node-3", "action", Pos(Num(600), Num(100)),
                           [inputs |-> 1, outputs |-> 0])>>,
              <<>>)
    /\ created = 0
    /\ wired = 0
    /\ isSidebarOpen = FALSE
    /\ pendingConnection = nullObj
    /\ shouldCancelConnection = FALSE
    /\ cancelTimers = 0
    /\ selectedNodeIds = {}
    /\ nodeProps = [n \in {"node-1", "node-2", "node-3"} |->
                        [isConnecting |-> FALSE, sourceNodeId |-> null,
                         sourceType |-> null, sourceIndex |-> null]]
    /\ connectionState = IdleConnection
    /\ viewportTransform = [x |-> Num(0), y |-> Num(0), scale |-> Num(1)]
    /\ isPanning = FALSE
    /\ panStart = Pos(Num(0), Num(0))
    /\ touchState = nullObj
    /\ touches = <<>>
    /\ isMac = FALSE
    /\ draggingNodeId = null
    /\ dragStartRef = Pos(Num(0), Num(0))
    /\ hasMouseMoved = FALSE
    /\ currentDragNode = nullObj
    /\ alignmentGuides = <<>>
    /\ viewOps = 0
    /\ clipboard = nullObj
    /\ deserialized = nullObj

\* drags of the third node
NextSnap ==
    \/ NodeMouseDown("node-3", GrabPoint("node-3"))
    \/ \E p \in DragPoints : NodeMouseMove(p)
    \/ GuidesEffectRuns
    \/ NodeMouseUp

SpecSnap == InitSnap /\ [][NextSnap]_vars

\* serialization: a workflow, and any text on the clipboard
InitJson ==
    /\ workflow \in {InitialWorkflow, WiredWorkflow,
                     createWorkflow(<<>>, <<>>)}
    /\ created = 0
    /\ wired = 0
    /\ isSidebarOpen = FALSE
    /\ pendingConnection = nullObj
    /\ shouldCancelConnection = FALSE
    /\ cancelTimers = 0
    /\ selectedNodeIds = {}
    /\ nodeProps = [n \in NodeIdsOf(workflow) |->
                        [isConnecting |-> FALSE, sourceNodeId |-> null,
                         sourceType |-> null, sourceIndex |-> null]]
    /\ connectionState = IdleConnection
    /\ viewportTransform = [x |-> Num(0), y |-> Num(0), scale |-> Num(1)]
    /\ isPanning = FALSE
    /\ panStart = Pos(Num(0), Num(0))
    /\ touchState = nullObj
    /\ touches = <<>>
    /\ isMac = FALSE
    /\ draggingNodeId = null
    /\ dragStartRef = Pos(Num(0), Num(0))
    /\ hasMouseMoved = FALSE
    /\ currentDragNode = nullObj
    /\ alignmentGuides = <<>>
    /\ viewOps = 0
    /\ clipboard \in Texts
    /\ deserialized = nullObj

NextJson ==
    \/ exportWorkflow
    \/ Deserialize

SpecJson == InitJson /\ [][NextJson]_vars

\* up to three nodes at any of four places, two of them equally far from
\* the origin, seen at a scale of StartScales
InitReset ==
    /\ \E n \in 0..3 :
         \E at \in [1..n -> {Pos(Num(100), Num(100)), Pos(Num(350), Num(100)),
                             Pos(Num(100), Num(350)), Pos(Num(600), Num(100))}] :
            workflow = createWorkflow(
                [k \in 1..n |-> createNode(NewNodeIds[k], "action", at[k],
                                           [inputs |-> 1, outputs |-> 1])],
                <<>>)
    /\ created = 0
    /\ wired = 0
    /\ isSidebarOpen = FALSE
    /\ pendingConnection = nullObj
    /\ shouldCancelConnection = FALSE
    /\ cancelTimers = 0
    /\ selectedNodeIds = {}
    /\ nodeProps = [n \in NodeIdsOf(workflow) |->
                        [isConnecting |-> FALSE, sourceNodeId |-> null,
                         sourceType |-> null, sourceIndex |-> null]]
    /\ connectionState = IdleConnection
    /\ \E s \in StartScales :
          viewportTransform = [x |-> Num(0), y |-> Num(0), scale |-> s]
    /\ isPanning = FALSE
    /\ panStart = Pos(Num(0), Num(0))
    /\ touchState = nullObj
    /\ touches = <<>>
    /\ isMac = FALSE
    /\ draggingNodeId = null
    /\ dragStartRef = Pos(Num(0), Num(0))
    /\ hasMouseMoved = FALSE
    /\ currentDragNode = nullObj
    /\ alignmentGuides = <<>>
    /\ viewOps = 0
    /\ clipboard = nullObj
    /\ deserialized = nullObj

NextReset ==
    \/ ZoomInClick
    \/ ZoomOutClick
    \/ ResetZoomClick

SpecReset == InitReset /\ [][NextReset]_vars

\* wire geometry: node-1 wired to a node-2 placed to its right, below it, or
\* to the left of its output handle
InitPath ==
    /\ \E at \in {Pos(Num(350), Num(100)), Pos(Num(290), Num(140)),
                   Pos(Num(230), Num(140)), Pos(Num(200), Num(20))} :
          workflow = createWorkflow(
              <<createNode("node-1", "trigger", Pos(Num(100), Num(100)),
                           [inputs |-> 0, outputs |-> 1]),
                createNode("node-2", "action", at,
                           [inputs |-> 1, outputs |-> 1])>>,
              <<createWire("wire-1", "node-1", "node-2", undefined, undefined)>>)
    /\ created = 0
    /\ wired = 0
    /\ isSidebarOpen = FALSE
    /\ pendingConnection = nullObj
    /\ shouldCancelConnection = FALSE
    /\ cancelTimers = 0
    /\ selectedNodeIds = {}
    /\ nodeProps = [n \in {"node-1", "node-2"} |->
                        [isConnecting |-> FALSE, sourceNodeId |-> null,
                         sourceType |-> null, sourceIndex |-> null]]
    /\ connectionState = IdleConnection
    /\ viewportTransform = [x |-> Num(0), y |-> Num(0), scale |-> Num(1)]
    /\ isPanning = FALSE
    /\ panStart = Pos(Num(0), Num(0))
    /\ touchState = nullObj
    /\ touches = <<>>
    /\ isMac = FALSE
    /\ draggingNodeId = null
    /\ dragStartRef = Pos(Num(0), Num(0))
    /\ hasMouseMoved = FALSE
    /\ currentDragNode = nullObj
    /\ alignmentGuides = <<>>
    /\ viewOps = 0
    /\ clipboard = nullObj
    /\ deserialized = nullObj

\* drafts from the handles of the two nodes, moved to points at whole
\* distances from the handles
NextPath ==
    \/ \E n \in NodeIdsOf(workflow), t \in HandleTypes : HandleMouseDown(n, t, 0)
    \/ \E n \in NodeIdsOf(workflow), t \in HandleTypes : HandleMouseUp(n, t, 0)
    \/ \E p \in {Pos(Num(300), Num(140)), Pos(Num(290), Num(180)),
                  Pos(Num(230), Num(100))} : MouseMove(p)
    \/ \E b \in BOOLEAN : MouseUp(b, Pos(Num(300), Num(140)))
    \/ KeyEscape
    \/ CancelTimerFires

SpecPath == InitPath /\ [][NextPath]_vars

(***************************************************************************)
(* Properties.                                                             *)
(***************************************************************************)
\* C1: referential integrity -- in every reachable state every wire's
\* sourceNodeId and targetNodeId are ids of nodes present in the workflow.
C1_ReferentialIntegrity ==
    \A w \in Range(workflow.wires) :
        /\ \E n \in Range(workflow.nodes) : n.id = w.sourceNodeId
        /\ \E n \in Range(workflow.nodes) : n.id = w.targetNodeId

\* two wires denote the same connection, an absent handle string counting as
\* index 0
SameConnection(v, w) ==
    /\ v.sourceNodeId = w.sourceNodeId
    /\ v.targetNodeId = w.targetNodeId
    /\ ParseIndex(v.sourceOutput) = ParseIndex(w.sourceOutput)
    /\ ParseIndex(v.targetInput) = ParseIndex(w.targetInput)

\* C2: wire uniqueness -- in every reachable state no two wires share the same
\* (sourceNodeId, source handle index, targetNodeId, target handle index), an
\* absent sourceOutput/targetInput counting as handle index 0.
C2_WireUniqueness ==
    \A j, k \in 1..Len(workflow.wires) :
        SameConnection(workflow.wires[j], workflow.wires[k]) => j = k

\* the world coordinates of the screen point p: (p - translate) / scale
WorldPoint(p) ==
    Pos(Over(Minus(p.x, viewportTransform.x), viewportTransform.scale),
        Over(Minus(p.y, viewportTransform.y), viewportTransform.scale))

\* C3: deferred drop -- when the pointer is released over empty canvas at p
\* while a draft is Dragging with hasMoved true, the draft stays Dragging with
\* the same source node, handle type and handle index, its cursor becomes the
\* world point of p, the workflow is unchanged, and the node-creation request
\* raised carries exactly that source and world point.
C3_DeferredDrop ==
    [][\A p \in Points :
          (/\ connectionState.isConnecting
           /\ connectionState.hasMouseMoved
           /\ MouseUp(TRUE, p))
          => /\ connectionState'.isConnecting
             /\ connectionState'.sourceNodeId = connectionState.sourceNodeId
             /\ connectionState'.sourceType = connectionState.sourceType
             /\ connectionState'.sourceIndex = connectionState.sourceIndex
             /\ connectionState'.currentPosition = WorldPoint(p)
             /\ workflow' = workflow
             /\ isSidebarOpen'
             /\ pendingConnection' =
                   [sourceNodeId |-> connectionState.sourceNodeId,
                    sourceType   |-> connectionState.sourceType,
                    sourceIndex  |-> connectionState.sourceIndex,
                    position     |-> WorldPoint(p)]]_vars

\* C3 witness: a draft deferred under a panned and zoomed viewport, its
\* request pending
C3_DeferredUnderTransform ==
    /\ connectionState.isConnecting
    /\ connectionState.hasMouseMoved
    /\ pendingConnection # nullObj
    /\ pendingConnection.position = connectionState.currentPosition
    /\ pendingConnection.sourceNodeId = connectionState.sourceNodeId
    /\ viewportTransform.scale # Num(1)
    /\ viewportTransform.x # Num(0)

\* the draft is the one the pending node-creation request was raised for
DeferredDraft ==
    /\ pendingConnection # nullObj
    /\ connectionState.isConnecting
    /\ connectionState.sourceNodeId = pendingConnection.sourceNodeId
    /\ connectionState.sourceType = pendingConnection.sourceType
    /\ connectionState.sourceIndex = pendingConnection.sourceIndex
    /\ connectionState.currentPosition = pendingConnection.position

\* C4: once a node-creation request has been raised for a draft, every step
\* that neither creates the node nor issues a cancel leaves the draft Dragging
\* with the same source node, handle type, handle index and cursor.
C4_DeferredDraftKept ==
    [][(/\ DeferredDraft
        /\ created' = created
        /\ cancelTimers' <= cancelTimers)
       => /\ connectionState'.isConnecting
          /\ connectionState'.sourceNodeId = connectionState.sourceNodeId
          /\ connectionState'.sourceType = connectionState.sourceType
          /\ connectionState'.sourceIndex = connectionState.sourceIndex
          /\ connectionState'.currentPosition = connectionState.currentPosition]_vars

\* C5: Escape discards the draft -- from every Dragging state the Escape key
\* event leads to Idle and leaves the workflow unchanged.
C5_EscapeDiscardsDraft ==
    [][(connectionState.isConnecting /\ KeyEscape)
       => (connectionState' = IdleConnection /\ workflow' = workflow)]_vars

\* C6: gesture mutual exclusion -- in every reachable state at most one of
\* canvas pan, pinch tracking and connection drag (a deferred draft included)
\* is active.
C6_MutualExclusion ==
    /\ ~(isPanning /\ connectionState.isConnecting)
    /\ ~(isPanning /\ touchState # nullObj)
    /\ ~(touchState # nullObj /\ connectionState.isConnecting)

\* C7: a second finger touching down ends the pan in progress.
C7_SecondTouchEndsPan ==
    [][(Len(touches) = 1 /\ Len(touches') = 2) => ~isPanning']_vars

\* C7 witness: after a pinch one finger remains and its move has set the
\* translate from the pan start recorded before the pinch
C7_PanResumedFromOldStart ==
    /\ Len(touches) = 1
    /\ isPanning
    /\ touchState = nullObj
    /\ viewportTransform.scale # Num(1)
    /\ viewportTransform.x = Minus(touches[1].x, panStart.x)
    /\ viewportTransform.y = Minus(touches[1].y, panStart.y)

\* C8: no wire without movement -- a pointer-up of a connection gesture adds
\* a wire only if the draft's hasMoved flag is true at that moment.
C8_NoWireWithoutMovement ==
    [][(/\ created' = created
        /\ Len(workflow'.wires) > Len(workflow.wires))
       => connectionState.hasMouseMoved]_vars

\* the wire w runs from output handle out = <<node, index>> to input handle
\* in = <<node, index>>
Connects(w, out, in) ==
    /\ w.sourceNodeId = out[1]
    /\ ParseIndex(w.sourceOutput) = out[2]
    /\ w.targetNodeId = in[1]
    /\ ParseIndex(w.targetInput) = in[2]

\* the output end and the input end of the connection the draft makes with
\* handle index i of node n
OutputEnd(cs, n, i) ==
    IF cs.sourceType = "output" THEN <<cs.sourceNodeId, cs.sourceIndex>>
                                ELSE <<n, i>>

InputEnd(cs, n, i) ==
    IF cs.sourceType = "output" THEN <<n, i>>
                                ELSE <<cs.sourceNodeId, cs.sourceIndex>>

\* C9: successful connection -- a pointer-up of a Dragging draft on a handle
\* of the opposite type on a different node, no wire of the same connection
\* existing, appends exactly one wire from the output handle to the input
\* handle with the gesture's two indices, changes no other wire and no node,
\* and leaves the connection state Idle.
C9_SuccessfulConnection ==
    [][\A n \in NodeIdsOf(workflow), t \in HandleTypes, i \in 0..1 :
          (/\ connectionState.isConnecting
           /\ t # connectionState.sourceType
           /\ n # connectionState.sourceNodeId
           /\ ~\E w \in Range(workflow.wires) :
                  Connects(w, OutputEnd(connectionState, n, i),
                              InputEnd(connectionState, n, i))
           /\ HandleMouseUp(n, t, i))
          => /\ Len(workflow'.wires) = Len(workflow.wires) + 1
             /\ SubSeq(workflow'.wires, 1, Len(workflow.wires)) = workflow.wires
             /\ Connects(workflow'.wires[Len(workflow'.wires)],
                         OutputEnd(connectionState, n, i),
                         InputEnd(connectionState, n, i))
             /\ workflow'.nodes = workflow.nodes
             /\ connectionState' = IdleConnection]_vars

\* C9 witness: a gesture has appended a third wire to the two initial ones
C9_GestureWireAdded ==
    /\ created = 0
    /\ wired = 1
    /\ Len(workflow.wires) = 3
    /\ connectionState = IdleConnection

\* C10: orientation is normalised -- a wire added by a connection gesture or
\* by the auto-wire of a created node has the node of the output handle as
\* sourceNodeId and the node of the input handle as targetNodeId, with the
\* output handle's index as sourceOutput and the input handle's as
\* targetInput, whichever handle the user grabbed first.
C10_OrientationNormalized ==
    [][/\ \A n \in NodeIdsOf(workflow), t \in HandleTypes, i \in 0..1 :
             (Len(workflow'.wires) > Len(workflow.wires) /\ HandleMouseUp(n, t, i))
             => Connects(workflow'.wires[Len(workflow'.wires)],
                         OutputEnd(connectionState, n, i),
                         InputEnd(connectionState, n, i))
       /\ \A nt \in NodeTypes, r \in RandomPositions :
             (Len(workflow'.wires) > Len(workflow.wires) /\ AddNode(nt, r))
             => Connects(workflow'.wires[Len(workflow'.wires)],
                         OutputEnd(pendingConnection,
                                   workflow'.nodes[Len(workflow'.nodes)].id, 0),
                         InputEnd(pendingConnection,
                                  workflow'.nodes[Len(workflow'.nodes)].id, 0))]_vars

\* C10 witness: a wire runs from output 1 of the created node into an initial
\* node
C10_WireFromSecondOutput ==
    \E w \in Range(workflow.wires) :
        /\ w.sourceNodeId = "node-a"
        /\ w.sourceOutput = "1"
        /\ w.targetNodeId \in {"node-2", "node-3"}

\* the wire w has exactly the fields of the wire from output handle
\* out = <<node, index>> to input handle in = <<node, index>>
IdenticalWire(w, out, in) ==
    /\ w.sourceNodeId = out[1]
    /\ w.sourceOutput = toString(out[2])
    /\ w.targetNodeId = in[1]
    /\ w.targetInput = toString(in[2])

\* C11: silent de-duplication -- a pointer-up of a Dragging draft on a handle
\* of the opposite type on a different node, a wire with the identical
\* (sourceNodeId, sourceOutput, targetNodeId, targetInput) existing, leaves
\* the workflow unchanged and the connection state Idle.
C11_SilentDeduplication ==
    [][\A n \in NodeIdsOf(workflow), t \in HandleTypes, i \in 0..1 :
          (/\ connectionState.isConnecting
           /\ t # connectionState.sourceType
           /\ n # connectionState.sourceNodeId
           /\ \E w \in Range(workflow.wires) :
                  IdenticalWire(w, OutputEnd(connectionState, n, i),
                                   InputEnd(connectionState, n, i))
           /\ HandleMouseUp(n, t, i))
          => /\ workflow' = workflow
             /\ connectionState' = IdleConnection]_vars

\* C12: abort on invalid target -- a pointer-up of a Dragging draft on a
\* handle of the source handle's type (on any node) or on any handle of the
\* source node leaves the connection state Idle with every field cleared and
\* the workflow unchanged.
C12_AbortOnInvalidTarget ==
    [][\A n \in NodeIdsOf(workflow), t \in HandleTypes, i \in 0..1 :
          (/\ connectionState.isConnecting
           /\ (t = connectionState.sourceType
                  \/ n = connectionState.sourceNodeId)
           /\ HandleMouseUp(n, t, i))
          => /\ connectionState' = IdleConnection
             /\ workflow' = workflow]_vars

\* C13: host cancel signal -- a step in which the host asserts the cancel
\* flag while a draft is Dragging leaves the connection state Idle and, unless
\* the step is the creation of the node, the workflow unchanged; closing the
\* picker while a request is pending asserts the flag and clears the request.
C13_HostCancelSignal ==
    [][/\ (/\ connectionState.isConnecting
           /\ cancelTimers' > cancelTimers
           /\ shouldCancelConnection')
          => /\ connectionState' = IdleConnection
             /\ (created' = created => workflow' = workflow)
       /\ (/\ isSidebarOpen
           /\ pendingConnection # nullObj
           /\ ToggleSidebar)
          => /\ shouldCancelConnection'
             /\ pendingConnection' = nullObj]_vars

\* C13 witness: the picker was closed with a request pending; the flag is
\* still asserted and the draft is gone
C13_CancelledByHost ==
    /\ shouldCancelConnection
    /\ cancelTimers > 0
    /\ created = 0
    /\ ~isSidebarOpen
    /\ pendingConnection = nullObj
    /\ connectionState = IdleConnection

\* C14: cascade deletion -- deleting node N yields in one step the previous
\* nodes without N, in their order, and the previous wires whose sourceNodeId
\* and targetNodeId both differ from N, in their order; nothing else changes.
C14_CascadeDeletion ==
    [][\A N \in NodeIdsOf(workflow) :
          NodeDeleteClick(N)
          => /\ workflow'.nodes = SelectSeq(workflow.nodes, LAMBDA n : n.id # N)
             /\ workflow'.wires =
                   SelectSeq(workflow.wires,
                             LAMBDA w : w.sourceNodeId # N /\ w.targetNodeId # N)
             /\ DOMAIN workflow' = {"nodes", "wires"}]_vars

\* C14 witness: of nodes {1, 2, 3} with wires {1 -> 2, 2 -> 3}, node-2 was
\* deleted: nodes {1, 3} and no wire are left
C14_MiddleNodeDeleted ==
    /\ created = 0
    /\ NodeIdsOf(workflow) = {"node-1", "node-3"}
    /\ workflow.wires = <<>>

\* the field value v, a string or a number, is null
IsNull(v) == ToString(v) = ToString(null)

C15_ScaleBounds ==
    /\ ~IsNaN(viewportTransform.scale)
    /\ ~Less(viewportTransform.scale, <<1, 10>>)
    /\ ~Less(Num(3), viewportTransform.scale)

\* the scale a stepped zoom is to give: the stepped and clamped scale, or
\* exactly 1 when that lies strictly within 0.1 of 1
C16_Result(stepped) ==
    IF Less(Minus(stepped, Num(1)), <<1, 10>>) /\ Less(Minus(Num(1), stepped), <<1, 10>>)
    THEN Num(1)
    ELSE stepped

\* C16: stepped zoom -- a zoom-in press sets the scale to min(3, scale + 0.2)
\* and a zoom-out press to max(0.1, scale - 0.2), and a result strictly within
\* 0.1 of 1.0 becomes exactly 1.0; from 1.0 zoom-in gives 1.2 and from 1.05
\* zoom-out gives 0.85.
C16_SteppedZoom ==
    [][/\ ZoomInClick =>
            /\ viewportTransform'.scale =
                   C16_Result(MathMin(Num(3), Plus(viewportTransform.scale, <<1, 5>>)))
            /\ viewportTransform.scale = Num(1) => viewportTransform'.scale = <<6, 5>>
       /\ ZoomOutClick =>
            /\ viewportTransform'.scale =
                   C16_Result(MathMax(<<1, 10>>, Minus(viewportTransform.scale, <<1, 5>>)))
            /\ viewportTransform.scale = <<21, 20>> =>
                   viewportTransform'.scale = <<17, 20>>]_vars

\* a zoom-in press from scale 0.85 at the origin has landed on 1.05 and been
\* snapped to exactly 1, about the first node's centre
C16_SnappedToUnit ==
    viewportTransform = [x |-> Num(-27), y |-> Num(-21), scale |-> Num(1)]

\* the world point under the screen point anchor
C17_WorldPoint(anchor, vt) ==
    Pos(Over(Minus(anchor.x, vt.x), vt.scale), Over(Minus(anchor.y, vt.y), vt.scale))

\* the step keeps the world point under the anchor
C17_Preserves(anchor) ==
    C17_WorldPoint(anchor, viewportTransform') = C17_WorldPoint(anchor, viewportTransform)

\* C17: anchor-preserving zoom -- every wheel or pinch step that changes the
\* scale keeps the world point under the anchor where it was: the anchor is the
\* cursor for the wheel and the initial two-finger midpoint for every pinch
\* move.
C17_AnchorPreserved ==
    [][viewportTransform'.scale # viewportTransform.scale =>
         /\ \A p \in Points, d \in WheelDeltas, c \in BOOLEAN :
               Wheel(p, d, c) =>
                   C17_Preserves(Pos(Minus(p.x, Num(RectLeft)), Minus(p.y, Num(RectTop))))
         /\ \A k \in 1..2, p \in TouchPoints :
               (TouchMove(k, p) /\ Len(touches) = 2 /\ touchState # nullObj) =>
                   C17_Preserves(touchState.initialCenter)]_vars

\* a wheel step at the cursor (300,200) has changed the scale of a viewport
\* away from the origin
C17_WheelZoomedAtCursor ==
    /\ viewportTransform.scale \notin StartScales
    /\ viewportTransform.x # Num(0)
    /\ ~IsNaN(viewportTransform.scale)
    /\ touches = <<>>
    /\ ~isPanning

\* the coordinates, among cs, that differ from c by strictly less than 8
C18_Near(cs, c) ==
    {o \in cs : Less(Minus(o, c), Num(8)) /\ Less(Minus(c, o), Num(8))}

\* the stored coordinate is that of a near node, or the proposed one when no
\* node is near
C18_AxisCorrect(cs, proposed, stored) ==
    IF C18_Near(cs, proposed) # {} THEN stored \in C18_Near(cs, proposed)
    ELSE stored = proposed

\* C18: snap correctness -- for a drag update proposing position p, on each
\* axis by itself: if another node's coordinate differs from p's by strictly
\* less than 8 the stored coordinate is exactly the coordinate of such a node,
\* and otherwise (a difference of exactly 8 included) it is the proposed one;
\* with a node at (100,100) the only one near, a node dragged to (102,300) is
\* stored at (100,300) and a vertical guide at x = 100 is produced.
C18_SnapCorrectness ==
    /\ [][\A p \in DragPoints :
         NodeMouseMove(p) =>
            LET proposed == Pos(Minus(p.x, dragStartRef.x), Minus(p.y, dragStartRef.y))
                stored   == FindNode(workflow', draggingNodeId).position
                others   == {m \in Range(workflow.nodes) : m.id # draggingNodeId}
                xs       == {m.position.x : m \in others}
                ys       == {m.position.y : m \in others}
            IN  /\ C18_AxisCorrect(xs, proposed.x, stored.x)
                /\ C18_AxisCorrect(ys, proposed.y, stored.y)
                /\ ( /\ proposed = Pos(Num(102), Num(300))
                     /\ Pos(Num(100), Num(100)) \in {m.position : m \in others}
                     /\ C18_Near(xs, proposed.x) = {Num(100)} )
                   => stored = Pos(Num(100), Num(300))]_vars
    /\ [][GuidesEffectRuns =>
            LET proposed == currentDragNode.node.position
                others   == {m \in Range(workflow.nodes) : m.id # draggingNodeId}
                xs       == {m.position.x : m \in others}
            IN  ( /\ currentDragNode # nullObj
                  /\ draggingNodeId = currentDragNode.node.id
                  /\ proposed = Pos(Num(102), Num(300))
                  /\ Pos(Num(100), Num(100)) \in {m.position : m \in others}
                  /\ C18_Near(xs, proposed.x) = {Num(100)} )
                => \E g \in Range(alignmentGuides') :
                      g.type = "vertical" /\ g.position = Num(100)]_vars

\* node-2 has been dragged to (102,300) and is stored at (100,300), with a
\* vertical guide at x = 100 against node-1
C18_SnappedToFirstNode ==
    /\ currentDragNode # nullObj
    /\ currentDragNode.node.id = "node-2"
    /\ currentDragNode.node.position = Pos(Num(102), Num(300))
    /\ "node-1" \in NodeIdsOf(workflow)
    /\ FindNode(workflow, "node-1").position = Pos(Num(100), Num(100))
    /\ FindNode(workflow, "node-2").position = Pos(Num(100), Num(300))
    /\ \E g \in Range(alignmentGuides) :
          g.type = "vertical" /\ g.position = Num(100) /\ g.nodeIds = <<"node-2", "node-1">>

\* C19: guide lifecycle -- in every reachable state the guide list is non-empty
\* only if a node drag is active; in the state right after a drag ends, by
\* release or any other cause, the list is empty, and it stays empty until the
\* next drag update.
C19_GuideLifecycle ==
    /\ (alignmentGuides # <<>> => draggingNodeId # null)
    /\ [][/\ alignmentGuides' # <<>> => draggingNodeId' # null
          /\ (draggingNodeId # null /\ draggingNodeId' = null) => alignmentGuides' = <<>>
          /\ (alignmentGuides = <<>> /\ alignmentGuides' # <<>>) =>
                GuidesEffectRuns]_vars

\* C21: a node-creation request is raised only by a pointer release over
\* empty canvas while the connection state is Dragging with hasMoved true:
\* never when the state is Idle, when hasMoved is false, or by an event that
\* lands elsewhere.
C21_RequestOnlyOnDeferredDrop ==
    [][(pendingConnection' # nullObj /\ pendingConnection' # pendingConnection) =>
         /\ connectionState.isConnecting
         /\ connectionState.hasMouseMoved
         /\ \E p \in DocPoints : MouseUp(TRUE, p)]_vars

\* a request raised by a release over empty canvas, the draft kept
C21_RequestRaised ==
    /\ pendingConnection # nullObj
    /\ connectionState.isConnecting
    /\ connectionState.hasMouseMoved
    /\ viewOps = 0
    /\ clipboard = nullObj
    /\ deserialized = nullObj

\* the fraction of the node's height at which handle i of n is to sit
C22_Fraction(n, i) == IF n = 1 THEN <<1, 2>> ELSE Over(Num(i + 1), Num(n + 1))

\* the number of handles on a side of a node
C22_Count(node, isOutput) == IF isOutput THEN node.data.outputs ELSE node.data.inputs

\* C22: handle distribution -- for a side with n >= 1 handles and every index
\* i < n the anchor has x = the node's left edge (inputs) or left edge + 160
\* (outputs) and y = node top + 80 * f, f = 1/2 when n = 1 and (i+1)/(n+1)
\* otherwise; f lies strictly between 0 and 1 and increases strictly with i
\* (n = 3 gives 1/4, 1/2, 3/4), and the Node places the visible handle at the
\* same fraction.
C22_HandleDistribution ==
    \A node \in Range(workflow.nodes), isOutput \in BOOLEAN :
        LET n == C22_Count(node, isOutput)
        IN  \A i \in 0..(n - 1) :
                LET f == C22_Fraction(n, i)
                    a == getHandlePosition(node, isOutput, i)
                IN  /\ a.x = IF isOutput THEN Plus(node.position.x, Num(160))
                                         ELSE node.position.x
                    /\ a.y = Plus(node.position.y, Times(Num(80), f))
                    /\ Less(Num(0), f) /\ Less(f, Num(1))
                    /\ i > 0 => Less(C22_Fraction(n, i - 1), f)
                    /\ n = 3 => f = <<<<1, 4>>, <<1, 2>>, <<3, 4>>>>[i + 1]
                    /\ NodeTopOffset(n, i) = Times(f, Num(100))

\* a draft started on the last of three outputs, at three quarters of the
\* node's height
C22_DraftFromThirdOutput ==
    /\ connectionState.isConnecting
    /\ connectionState.sourceNodeId = "node-1"
    /\ connectionState.sourceType = "output"
    /\ connectionState.sourceIndex = 2
    /\ FindNode(workflow, "node-1").data.outputs = 3
    /\ connectionState.currentPosition = Pos(Num(260), Num(160))

\* C23: a wire is skipped at render time, no path produced, whenever its
\* source or target node is absent from the workflow, or its source handle
\* index is not an index of the source node's outputs, or its target handle
\* index is not an index of the target node's inputs.
C23_BrokenWireSkipped ==
    \A w \in Range(workflow.wires) :
        ( \/ w.sourceNodeId \notin NodeIdsOf(workflow)
          \/ w.targetNodeId \notin NodeIdsOf(workflow)
          \/ ParseIndex(w.sourceOutput) >=
                FindNode(workflow, w.sourceNodeId).data.outputs
          \/ ParseIndex(w.targetInput) >=
                FindNode(workflow, w.targetNodeId).data.inputs )
        => WireEndpoints(workflow, w) = nullObj

\* a wire whose target node is absent, skipped
C23_DanglingWireSkipped ==
    \E w \in Range(workflow.wires) :
        /\ w.sourceNodeId \in NodeIdsOf(workflow)
        /\ w.targetNodeId \notin NodeIdsOf(workflow)
        /\ WireEndpoints(workflow, w) = nullObj

\* C24: deserializeWorkflow returns, for every text, a workflow whose nodes
\* and wires are both arrays: the empty workflow for text that is not JSON,
\* and an empty array for a nodes or wires field that is missing or is not
\* an array.
C24_DeserializationTotal ==
    [][(deserialized' = deserializeWorkflow(clipboard) /\ clipboard' = clipboard)
        => LET empty == [kind |-> "array", value |-> <<>>]
               Field(key) ==
                   IF /\ clipboard.valid
                      /\ clipboard.value.kind = "object"
                      /\ key \in DOMAIN clipboard.value.value
                   THEN clipboard.value.value[key]
                   ELSE [kind |-> "undefined"]
           IN  /\ deserialized'.nodes.kind = "array"
               /\ deserialized'.wires.kind = "array"
               /\ ~clipboard.valid
                     => deserialized' = [nodes |-> empty, wires |-> empty]
               /\ Field("nodes").kind # "array" => deserialized'.nodes = empty
               /\ Field("wires").kind # "array" => deserialized'.wires = empty]_vars

C24_TextNotJsonGivesEmpty ==
    /\ deserialized # nullObj
    /\ ~clipboard.valid
    /\ deserialized.nodes.value = <<>>
    /\ deserialized.wires.value = <<>>

\* two values are the same to a reader: a property that is absent reads
\* as undefined
RECURSIVE C25_Same(_, _)
C25_Same(a, b) ==
    LET Get(v, key) ==
            IF key \in DOMAIN v.value THEN v.value[key]
            ELSE [kind |-> "undefined"]
    IN  /\ a.kind = b.kind
        /\ CASE a.kind = "object" ->
                    \A key \in DOMAIN a.value \cup DOMAIN b.value :
                        C25_Same(Get(a, key), Get(b, key))
              [] a.kind = "array" ->
                    /\ Len(a.value) = Len(b.value)
                    /\ \A k \in 1..Len(a.value) :
                          C25_Same(a.value[k], b.value[k])
              [] OTHER -> a = b

C26_ResetToContent ==
    [][ResetZoomClick =>
        IF workflow.nodes = <<>>
        THEN viewportTransform' = [x |-> Num(0), y |-> Num(0), scale |-> Num(1)]
        ELSE LET Score(k) == Plus(workflow.nodes[k].position.x,
                                  workflow.nodes[k].position.y)
                 least == CHOOSE k \in 1..Len(workflow.nodes) :
                             \A j \in 1..Len(workflow.nodes) :
                                 /\ ~Less(Score(j), Score(k))
                                 /\ j < k => Less(Score(k), Score(j))
                 at == workflow.nodes[least].position
             IN  viewportTransform' =
                     [x |-> Minus(Over(Num(CanvasWidth), Num(2)),
                                  Plus(at.x, Num(80))),
                      y |-> Minus(Over(Num(CanvasHeight), Num(2)),
                                  Plus(at.y, Num(40))),
                      scale |-> Num(1)]]_vars

\* the view was zoomed and then reset onto the earlier of two nodes that
\* are equally far from the origin
C26_ResetOntoEarlierOfTwo ==
    /\ viewOps = 2
    /\ Len(workflow.nodes) = 3
    /\ workflow.nodes[1].position = Pos(Num(600), Num(100))
    /\ workflow.nodes[2].position = Pos(Num(100), Num(350))
    /\ workflow.nodes[3].position = Pos(Num(350), Num(100))
    /\ viewportTransform = [x |-> Num(220), y |-> Num(-90), scale |-> Num(1)]

\* C27: a node the host creates for a node-creation request is placed so
\* that the anchor of its connecting handle (input 0 for a draft from an
\* output, output 0 for a draft from an input) is the drop position of the
\* request; if the node has a handle of that kind exactly one wire is added,
\* between the draft's source handle and that handle, and otherwise the node
\* is added without a wire.
C27_HandlePreciseCreation ==
    [][(created' = created + 1 /\ pendingConnection # nullObj) =>
        LET request    == pendingConnection
            fromOutput == request.sourceType = "output"
            newNode    == workflow'.nodes[Len(workflow'.nodes)]
            handles    == IF fromOutput THEN newNode.data.inputs
                                        ELSE newNode.data.outputs
            added      == workflow'.wires[Len(workflow'.wires)]
        IN  /\ workflow'.nodes = Append(workflow.nodes, newNode)
            /\ newNode.id \notin NodeIdsOf(workflow)
            /\ getHandlePosition(newNode, ~fromOutput, 0) = request.position
            /\ IF handles > 0
               THEN /\ workflow'.wires = Append(workflow.wires, added)
                    /\ IF fromOutput
                       THEN /\ added.sourceNodeId = request.sourceNodeId
                            /\ added.sourceOutput = toString(request.sourceIndex)
                            /\ added.targetNodeId = newNode.id
                            /\ added.targetInput = toString(0)
                       ELSE /\ added.sourceNodeId = newNode.id
                            /\ added.sourceOutput = toString(0)
                            /\ added.targetNodeId = request.sourceNodeId
                            /\ added.targetInput = toString(request.sourceIndex)
               ELSE workflow'.wires = workflow.wires]_vars

\* a memory node was created for a draft from an output of node-2 and wired
\* at its first input, which lies at a third of its height
C27_NodeCreatedAtDrop ==
    /\ created = 1
    /\ wired = 1
    /\ LET newNode == workflow.nodes[Len(workflow.nodes)]
           added   == workflow.wires[Len(workflow.wires)]
       IN  /\ newNode.type = "memory"
           /\ added.sourceNodeId = "node-2"
           /\ added.targetNodeId = newNode.id
           /\ getHandlePosition(newNode, FALSE, 0).y
                 = Plus(newNode.position.y, Over(Num(NODE_HEIGHT), Num(3)))

\* C28: no stale guide -- in every state that is rendered after a drag
\* update, the guide list is the list computed from that update's position
\* of the dragged node and the other nodes as they are; the dragged node is
\* never shown at its new position with the guides of a previous position.
C28_NoStaleGuide ==
    (draggingNodeId # null /\ currentDragNode # nullObj) =>
        LET id     == currentDragNode.node.id
            others == SelectSeq(workflow.nodes, LAMBDA m : m.id # id)
        IN  \/ alignmentGuides = calculateSnapping(currentDragNode.node, others).guides
            \/ /\ id \in NodeIdsOf(workflow)
               /\ alignmentGuides =
                     calculateSnapping(FindNode(workflow, id), others).guides

\* the guides shown are those of the last drag update
C28_GuidesOfLastUpdate ==
    /\ draggingNodeId # null
    /\ currentDragNode # nullObj
    /\ currentDragNode.node.position = Pos(Num(102), Num(300))
    /\ alignmentGuides # <<>>
    /\ alignmentGuides =
          calculateSnapping(currentDragNode.node,
              SelectSeq(workflow.nodes,
                        LAMBDA m : m.id # currentDragNode.node.id)).guides

C29_Matches(a, b) == Less(MathAbs(Minus(a, b)), Num(8))

\* C29: last match wins -- when several other nodes match the dragged node
\* on an axis, the stored coordinate on that axis is that of the matching
\* node that comes last in the list of the other nodes, whichever is nearest,
\* and the guides hold one guide for every matching keyline pair (centre,
\* near edge, far edge) of every matching node.
C29_LastMatchWins ==
    /\ [][\A p \in DragPoints :
          NodeMouseMove(p) =>
            LET proposed == Pos(Minus(p.x, dragStartRef.x), Minus(p.y, dragStartRef.y))
                stored   == FindNode(workflow', draggingNodeId).position
                others   == SelectSeq(workflow.nodes, LAMBDA m : m.id # draggingNodeId)
                mx       == {k \in 1..Len(others) :
                               C29_Matches(proposed.x, others[k].position.x)}
                my       == {k \in 1..Len(others) :
                               C29_Matches(proposed.y, others[k].position.y)}
                Last(S)  == CHOOSE k \in S : \A j \in S : j <= k
            IN  /\ mx # {} => stored.x = others[Last(mx)].position.x
                /\ my # {} => stored.y = others[Last(my)].position.y]_vars
    /\ [][(GuidesEffectRuns /\ currentDragNode # nullObj) =>
            LET dragged  == currentDragNode.node
                others   == SelectSeq(workflow.nodes, LAMBDA m : m.id # dragged.id)
                Lines(type, m) ==
                    {k \in 1..Len(alignmentGuides') :
                        /\ alignmentGuides'[k].type = type
                        /\ alignmentGuides'[k].nodeIds = <<dragged.id, m.id>>}
                At(type, m) == {alignmentGuides'[k].position : k \in Lines(type, m)}
            IN  \A k \in 1..Len(others) :
                    LET m == others[k]
                    IN  /\ IF C29_Matches(dragged.position.x, m.position.x)
                           THEN /\ Cardinality(Lines("vertical", m)) = 3
                                /\ At("vertical", m) =
                                      {m.position.x, Plus(m.position.x, Num(80)),
                                       Plus(m.position.x, Num(160))}
                           ELSE Lines("vertical", m) = {}
                        /\ IF C29_Matches(dragged.position.y, m.position.y)
                           THEN /\ Cardinality(Lines("horizontal", m)) = 3
                                /\ At("horizontal", m) =
                                      {m.position.y, Plus(m.position.y, Num(40)),
                                       Plus(m.position.y, Num(80))}
                           ELSE Lines("horizontal", m) = {}]_vars

\* node-3, proposed at x = 102, matches node-1 at 100 and node-2 at 108 and
\* is stored at 108, the later of the two and the farther one
C29_SnappedToLaterNode ==
    /\ currentDragNode # nullObj
    /\ currentDragNode.node.id = "node-3"
    /\ currentDragNode.node.position.x = Num(102)
    /\ NodeIdsOf(workflow) = {"node-1", "node-2", "node-3"}
    /\ FindNode(workflow, "node-1").position.x = Num(100)
    /\ FindNode(workflow, "node-2").position.x = Num(108)
    /\ FindNode(workflow, "node-3").position.x = Num(108)
    /\ Cardinality({k \in 1..Len(alignmentGuides) :
                       alignmentGuides[k].type = "vertical"}) = 6

\* the extent the guide g has between the dragged node as it is stored and
\* the other node of g
C30_Spans(wf, g) ==
    LET stored == FindNode(wf, g.nodeIds[1]).position
        other  == FindNode(wf, g.nodeIds[2]).position
    IN  IF g.type = "vertical"
        THEN /\ g.start = Minus(MathMin(stored.y, other.y), Num(5))
             /\ g.end = Plus(MathMax(Plus(stored.y, Num(NODE_HEIGHT)),
                                      Plus(other.y, Num(NODE_HEIGHT))), Num(5))
        ELSE /\ g.start = Minus(MathMin(stored.x, other.x), Num(5))
             /\ g.end = Plus(MathMax(Plus(stored.x, Num(NODE_WIDTH)),
                                      Plus(other.x, Num(NODE_WIDTH))), Num(5))

\* C30: guide extent -- every guide of a drag update spans, on the other
\* axis, from the smaller of the two nodes' near edges less 5 to the larger
\* of their far edges plus 5, the dragged node's edges being those of the
\* position at which the update stores it, after snapping on both axes.
C30_GuideExtent ==
    [][(/\ GuidesEffectRuns
        /\ currentDragNode # nullObj
        /\ currentDragNode.node.id \in NodeIdsOf(workflow))
        => \A k \in 1..Len(alignmentGuides') :
               C30_Spans(workflow, alignmentGuides'[k])]_vars

\* node-2, stored at (100,300) after a snap on x alone, with guides that
\* span both nodes
C30_GuidesSpanBothNodes ==
    /\ draggingNodeId = "node-2"
    /\ currentDragNode # nullObj
    /\ "node-2" \in NodeIdsOf(workflow)
    /\ FindNode(workflow, "node-2").position = Pos(Num(100), Num(300))
    /\ alignmentGuides # <<>>
    /\ \A k \in 1..Len(alignmentGuides) :
          /\ alignmentGuides[k].start = Num(95)
          /\ alignmentGuides[k].end = Num(385)
          /\ C30_Spans(workflow, alignmentGuides[k])

\* the sensitivity factor of a wheel event that zooms, or zero when the
\* event does not zoom
C31_Factor(mac, deltaY, ctrlKey) ==
    LET small == Less(MathAbs(deltaY), Num(50))
    IN  IF mac
        THEN IF ctrlKey /\ small THEN Times(MathAbs(deltaY), <<1, 1000>>)
             ELSE IF ctrlKey THEN <<1, 10>>
             ELSE IF small /\ HasFraction(deltaY)
                  THEN Times(MathAbs(deltaY), <<1, 100>>)
             ELSE Num(0)
        ELSE IF ctrlKey THEN Num(0) ELSE <<1, 10>>

\* C31: wheel classification -- on a Mac a pinch (modifier set) changes the
\* scale by |deltaY| * 0.001, an unmodified fractional delta below 50 by
\* |deltaY| * 0.01, a modifier + wheel event of |deltaY| >= 50 by the fixed
\* 0.1, and an unmodified integer delta does not zoom; elsewhere every
\* unmodified wheel event changes the scale by 0.1.  The new scale is the old
\* one less (deltaY > 0) or plus the factor, kept within [0.1, 3].
C31_WheelClassification ==
    [][\A p \in Points, d \in WheelDeltas, c \in BOOLEAN :
         (Wheel(p, d, c) /\ IsFinite(viewportTransform.scale)) =>
            LET factor == C31_Factor(isMac, d, c)
                step   == IF Less(Num(0), d) THEN Minus(Num(0), factor) ELSE factor
            IN  viewportTransform'.scale =
                    MathMax(<<1, 10>>,
                            MathMin(Num(3), Plus(viewportTransform.scale, step)))]_vars

\* one unmodified fractional scroll on a Mac has taken the scale from 1 to
\* 0.875
C31_TrackpadScrollZoomed ==
    /\ isMac
    /\ viewOps = 1
    /\ viewportTransform.scale = <<7, 8>>
    /\ touches = <<>>

\* the distance between two points is a whole number, not zero
C32_Whole(a, b) ==
    LET dx == Minus(b.x, a.x)
        dy == Minus(b.y, a.y)
        sq == Plus(Times(dx, dx), Times(dy, dy))
    IN  /\ IsFinite(sq) /\ sq[2] = 1
        /\ \E r \in 1..MaxRoot : r * r = sq[1]

\* C32: the temporary wire is built as a persisted wire is -- for the same
\* output-side and input-side end points its path is the persisted wire's
\* path (both ends inset by 10 along the line between them, the control
\* points placed from the inset ends), it runs from the output side to the
\* input side whichever handle was grabbed, and it is rendered only while
\* the draft is Dragging and has moved.
C32_DraftAsPersisted ==
    LET cs     == connectionState
        moving == cs.isConnecting /\ cs.hasMouseMoved
        shown  == moving /\ cs.sourceNodeId \in NodeIdsOf(workflow)
        handle == getHandlePosition(FindNode(workflow, cs.sourceNodeId),
                                    cs.sourceType = "output", cs.sourceIndex)
        outputSide == IF cs.sourceType = "output" THEN handle ELSE cs.currentPosition
        inputSide  == IF cs.sourceType = "output" THEN cs.currentPosition ELSE handle
    IN  /\ ~moving => TemporaryPath(workflow, cs) = nullObj
        /\ (shown /\ C32_Whole(handle, cs.currentPosition))
              => TemporaryPath(workflow, cs) = WirePath(outputSide, inputSide)

\* a draft grabbed at the input of node-2 is drawn from the cursor to the
\* handle
C32_DraftFromInputShown ==
    /\ connectionState.isConnecting
    /\ connectionState.hasMouseMoved
    /\ connectionState.sourceNodeId = "node-2"
    /\ connectionState.sourceType = "input"
    /\ C32_Whole(connectionState.currentPosition,
                 getHandlePosition(FindNode(workflow, "node-2"), FALSE, 0))
    /\ TemporaryPath(workflow, connectionState).start = connectionState.currentPosition

\* C33: control points sit inward -- for every persisted wire, wherever the
\* two nodes are (the target handle may be left of the source handle), the
\* first control point has the inset source end's y and the second the inset
\* target end's y, each lies 30% of the horizontal span from its own end
\* towards the other end, and so both control x lie between the two ends' x.
C33_ControlPointsInward ==
    \A k \in 1..Len(workflow.wires) :
        LET ends == WireEndpoints(workflow, workflow.wires[k])
        IN  (ends # nullObj /\ C32_Whole(ends.sourcePos, ends.targetPos)) =>
              LET path  == WirePath(ends.sourcePos, ends.targetPos)
                  span  == Minus(path.end.x, path.start.x)
                  lo    == MathMin(path.start.x, path.end.x)
                  hi    == MathMax(path.start.x, path.end.x)
              IN  /\ path.control1.y = path.start.y
                  /\ path.control2.y = path.end.y
                  /\ path.control1.x = Plus(path.start.x, Times(span, <<3, 10>>))
                  /\ path.control2.x = Minus(path.end.x, Times(span, <<3, 10>>))
                  /\ ~Less(path.control1.x, lo) /\ ~Less(hi, path.control1.x)
                  /\ ~Less(path.control2.x, lo) /\ ~Less(hi, path.control2.x)

\* the wire from node-1 to node-2 at its right: ends inset to x = 270 and
\* x = 340, control points at x = 291 and x = 319
C33_ControlPointsBetweenEnds ==
    /\ Len(workflow.wires) = 1
    /\ WireEndpoints(workflow, workflow.wires[1]) =
          [sourcePos |-> Pos(Num(260), Num(140)), targetPos |-> Pos(Num(350), Num(140))]
    /\ WirePath(Pos(Num(260), Num(140)), Pos(Num(350), Num(140))) =
          [start    |-> Pos(Num(270), Num(140)),
           control1 |-> Pos(Num(291), Num(140)),
           control2 |-> Pos(Num(319), Num(140)),
           end      |-> Pos(Num(340), Num(140))]
    /\ connectionState.isConnecting

\* C34: every draft is resolved -- once the pointer of a draft has been
\* released, on a handle, on a node body or on empty canvas, moved or not,
\* the connection state is Idle unless a node-creation request awaits the
\* host's decision; and once the host has created the node or cancelled, the
\* connection state is Idle.  No draft stays Dragging after its release
\* without a pending decision.
C34_DraftResolved ==
    [][/\ \A n \in NodeIdsOf(workflow), t \in HandleTypes, i \in 0..1 :
             HandleMouseUp(n, t, i) =>
                (pendingConnection' # nullObj \/ ~connectionState'.isConnecting)
       /\ \A b \in BOOLEAN, p \in DocPoints :
             (connectionState.isConnecting /\ MouseUp(b, p)) =>
                (pendingConnection' # nullObj \/ ~connectionState'.isConnecting)
       /\ (pendingConnection # nullObj /\ pendingConnection' = nullObj) =>
             ~connectionState'.isConnecting]_vars

\* a draft released on a handle of another node has become a wire and the
\* connection state is Idle
C34_ResolvedOnHandle ==
    /\ wired = 1
    /\ pendingConnection = nullObj
    /\ ~connectionState.isConnecting

\* C35: host and engine agree on the pending connection -- whenever the host
\* holds a pending node-creation request, the connection state is Dragging
\* with the source node, handle type and handle index of that request.
C35_HostEngineAgree ==
    pendingConnection # nullObj =>
       /\ connectionState.isConnecting
       /\ connectionState.sourceNodeId = pendingConnection.sourceNodeId
       /\ connectionState.sourceType = pendingConnection.sourceType
       /\ ToString(connectionState.sourceIndex) = ToString(pendingConnection.sourceIndex)

\* a request has just been raised: the host's request names the handle of
\* the draft on show
C35_RequestOfShownDraft ==
    /\ pendingConnection # nullObj
    /\ connectionState.isConnecting
    /\ connectionState.hasMouseMoved
    /\ connectionState.sourceNodeId = pendingConnection.sourceNodeId
    /\ connectionState.sourceType = pendingConnection.sourceType
    /\ ToString(connectionState.sourceIndex) = ToString(pendingConnection.sourceIndex)
    /\ connectionState.currentPosition = pendingConnection.position

\* the connection state a press on a handle leaves, as HandleMouseDown sets it
C36_AfterPress(nodeId, type, index) ==
    cancelConnectionEffect(shouldCancelConnection,
        handleStartConnection(nodeId, type, index,
            HandleClientCentre(FindNode(workflow, nodeId), type, index,
                               viewportTransform)))

\* C36: a cancel only affects the draft it was issued for -- in every state,
\* also while the host's cancel flag has not yet been reset by its timer, a
\* draft that the user starts on a handle stays Dragging.
C36_CancelOnlyItsDraft ==
    \A n \in NodeIdsOf(workflow), t \in HandleTypes, i \in 0..1 :
       HasHandle(workflow, n, t, i) => C36_AfterPress(n, t, i).isConnecting

\* a request has been resolved by the creation of a node, the flag is not
\* yet reset, and a press on the output handle of node-1 leaves no draft
C36_PressBeforeReset ==
    /\ created = 1
    /\ wired = 1
    /\ pendingConnection = nullObj
    /\ shouldCancelConnection
    /\ cancelTimers = 1
    /\ C36_AfterPress("node-1", "output", 0) = IdleConnection

\* the world point under the client point p
C37_WorldUnder(p, vt) ==
    Pos(Over(Minus(Minus(p.x, Num(RectLeft)), vt.x), vt.scale),
        Over(Minus(Minus(p.y, Num(RectTop)), vt.y), vt.scale))

\* the world point that a pan move brings under the pointer: a move to p sets
\* the translation to p - panStart
C37_Grabbed ==
    Pos(Over(Minus(panStart.x, Num(RectLeft)), viewportTransform.scale),
        Over(Minus(panStart.y, Num(RectTop)), viewportTransform.scale))

\* C37: pan keeps the grabbed point under the pointer -- the point a pan
\* brings under the pointer is the world point under the pointer at pan
\* start; every pan move brings it under the pointer and leaves the scale
\* unchanged; and a wheel event between the pan moves does not change it, so
\* that the pan moves after the wheel event bring the same point under the
\* pointer as those before.
C37_PanKeepsGrabbedPoint ==
    [][/\ \A p \in Points :
             CanvasMouseDown(p) =>
                C37_Grabbed' = C37_WorldUnder(p, viewportTransform')
       /\ \A p \in Points :
             (isPanning /\ MouseMove(p)) =>
                /\ C37_WorldUnder(p, viewportTransform') = C37_Grabbed
                /\ viewportTransform'.scale = viewportTransform.scale
       /\ \A p \in Points, d \in WheelDeltas, c \in BOOLEAN :
             (isPanning /\ Wheel(p, d, c)) => C37_Grabbed' = C37_Grabbed]_vars

\* a pan at a scale that a wheel event has set, moved to a point of Points
C37_PannedAtZoomedScale ==
    /\ isPanning
    /\ touches = <<>>
    /\ viewOps = 2
    /\ viewportTransform.scale \notin StartScales
    /\ \E p \in Points :
          /\ viewportTransform.x = Minus(p.x, panStart.x)
          /\ viewportTransform.y = Minus(p.y, panStart.y)
          /\ C37_WorldUnder(p, viewportTransform) = C37_Grabbed

\* C38: snapping is idempotent -- for every list of other nodes and every
\* proposed position of the dragged node, the snap computation applied to the
\* snapped position it returned (the position a drag update stores) returns
\* that position again.
C38_SnapIdempotent ==
    [][\A p \in DragPoints :
         NodeMouseMove(p) =>
            LET node     == FindNode(workflow, draggingNodeId)
                others   == OtherNodes(workflow, draggingNodeId)
                proposed == [node EXCEPT !.position =
                                Pos(Minus(p.x, dragStartRef.x), Minus(p.y, dragStartRef.y))]
                snapped  == calculateSnapping(proposed, others).snappedPosition
                again    == calculateSnapping([node EXCEPT !.position = snapped],
                                              others).snappedPosition
            IN  /\ FindNode(workflow', draggingNodeId).position = snapped
                /\ again = snapped]_vars

\* node-3 dragged to (102,300) is stored at (100,300), snapped to node-1,
\* with node-2 at (94,200) next in the list
C38_SnappedBesideNearNode ==
    /\ currentDragNode # nullObj
    /\ currentDragNode.node.id = "node-3"
    /\ currentDragNode.node.position = Pos(Num(102), Num(300))
    /\ FindNode(workflow, "node-1").position = Pos(Num(100), Num(100))
    /\ FindNode(workflow, "node-2").position = Pos(Num(94), Num(200))
    /\ FindNode(workflow, "node-3").position = Pos(Num(100), Num(300))

\* C39: a node drag update changes only the dragged node's position --
\* every other node, the dragged node's id, type and data, the order of the
\* node list and all wires are as before the update; and a drag update for a
\* node id that is not in the workflow leaves the nodes and wires unchanged.
C39_DragFrame ==
    /\ [][\A p \in DragPoints :
            NodeMouseMove(p) =>
               /\ workflow'.wires = workflow.wires
               /\ Len(workflow'.nodes) = Len(workflow.nodes)
               /\ \A k \in 1..Len(workflow.nodes) :
                     IF workflow.nodes[k].id = draggingNodeId
                     THEN workflow'.nodes[k] =
                             [workflow.nodes[k] EXCEPT !.position =
                                 workflow'.nodes[k].position]
                     ELSE workflow'.nodes[k] = workflow.nodes[k]]_vars
    /\ [](\A q \in ProposedPositions :
            handleNodeChange(workflow,
                createNode("node-9", "action", q, [inputs |-> 1, outputs |-> 1]),
                TRUE) = workflow)

\* a drag update has moved the first node to (108,108); the other nodes, the
\* order and the wires are those of the start
C39_FirstNodeMoved ==
    /\ draggingNodeId = "node-1"
    /\ hasMouseMoved
    /\ Len(workflow.nodes) = 3
    /\ workflow.nodes[1] =
          [InitialWorkflow.nodes[1] EXCEPT !.position = Pos(Num(108), Num(108))]
    /\ workflow.nodes[2] = InitialWorkflow.nodes[2]
    /\ workflow.nodes[3] = InitialWorkflow.nodes[3]
    /\ workflow.wires = InitialWorkflow.wires

====
